---- MODULE Spec2Model ----
(***************************************************************************)
(* Job lifecycle and recovery engine of the audio processing service      *)
(* (audio-processing-service/app.py): the in-memory job index `jobs`, the *)
(* durable job store (one JSON file per job under JOBS_FOLDER), the       *)
(* runner thread separate_audio, its progress-simulation thread, the      *)
(* recovery pass load_all_jobs_from_disk and the HTTP handlers that touch  *)
(* job records.                                                            *)
(*                                                                         *)
(* Python dictionaries are objects: `jobs` maps a job id to a reference,   *)
(* and a handler that keeps a reference (job_data, job) sees and makes     *)
(* changes to the very object the index holds.  The model keeps a heap of  *)
(* record objects for that reason.  A block under `with jobs_lock` is one  *)
(* action; statements outside the lock are one action each.                *)
(***************************************************************************)
EXTENDS Integers, Sequences, FiniteSets, TLC

\* ------------------------------------------------------------- bounds
\* Environment events of one behaviour: clock advances, status requests,
\* reload requests, cache-clear and disk-job-clear requests, crashes.
MaxEvents  == 2
\* Bytes of multipart framing around the uploaded file.
MultipartOverhead == 200
TickMinutes == 45    \* minutes per clock advance
ShortTickMinutes == 1
MaxElapsedSeconds == 130
LongTickMinutes == 1445

\* Job ids handed out by uuid.uuid4() (never reused).
JobIds == {"j1"}

\* Heap cells: one per reference holder (the index entry of each job and the
\* job_data / job of the request being handled).
Objs == {"o1", "o2"}
NoObj == "None"

\* ------------------------------------------------------------ records
\* An optional dictionary key: <<>> when the key is absent, <<v>> when set.
None == <<>>
Some(v) == <<v>>

Stems == {"vocals", "drums", "bass", "guitar", "piano", "other"}

\* job_data as built by process_audio (jobId and filename never change and
\* are left out; the id is the key of the index and of the store).
NewJob(t) ==
    [status |-> "pending", progress |-> 0, message |-> None, error |-> None,
     created_at |-> t, completed_at |-> None,
     tracks |-> None, bpm |-> None, duration |-> None]

\* No object in a heap cell / no <id>.json in JOBS_FOLDER.
NoRec == [NewJob(0) EXCEPT !.status = "absent"]

STUCK_MINUTES == 30
ERR_STUCK == "Processing interrupted by service restart (job was stuck)"
ERR_INTERRUPTED == "Processing interrupted by service restart"
ERR_KEY == "KeyError: job_id"
ERR_INIT == "Demucs initialization failed"
ERR_TIMEOUT == "Audio separation timed out"
ERR_EXIT == "Demucs failed: stderr"
ERR_NOTFOUND == "Separated files not found"

\* detect_bpm results: 0 stands for Python's None, otherwise int(tempo) > 0.
BpmResults == {0, 120}
\* Stem files the tool may leave in the resolved output directory.
StemOutcomes == {Stems, {"vocals"}, {}}

\* track_mapping: the file names looked for in separated_dir and the logical
\* name each is stored under.
track_mapping ==
    ("vocals.mp3" :> "vocals") @@ ("drums.mp3" :> "drums") @@
    ("bass.mp3" :> "bass") @@ ("guitar.mp3" :> "guitar") @@
    ("piano.mp3" :> "piano") @@ ("other.mp3" :> "other")
StemFileOf(n) == CHOOSE f \in DOMAIN track_mapping : track_mapping[f] = n

\* The contents of a job's output directory are a set of paths below it:
\* <<model>> is a model directory, <<model, sub>> a subdirectory of it and
\* <<model, sub, file>> a file in that subdirectory.
\* possible_dir in ['htdemucs_6s', 'htdemucs', 'mdx_extra', 'demucs']
ModelDirs == <<"htdemucs_6s", "htdemucs", "mdx_extra", "demucs">>
\* input_name = Path(input_file).stem
InputName == "input"
\* separated_dir = job_output_dir / 'htdemucs_6s' / input_name
Nominal == <<"htdemucs_6s", InputName>>
NoDir == <<>>

\* A subdirectory sub of model directory m holding the given files.
Subdir(m, sub, fs) == {<<m>>, <<m, sub>>} \cup {<<m, sub, f>> : f \in fs}
StemFiles(names) == {StemFileOf(n) : n \in names}

\* What the tool leaves when it works as the service expects.
UsualTrees == {Subdir("htdemucs_6s", InputName, StemFiles(s)) : s \in StemOutcomes}
\* Other layouts: the subdirectory under another name, two subdirectories,
\* another model's directory, empty model directories, files the service
\* does not look for.
OtherTrees ==
    { Subdir("htdemucs_6s", "renamed", StemFiles(Stems)),
      Subdir("htdemucs_6s", "a", StemFiles(Stems))
        \cup Subdir("htdemucs_6s", "b", StemFiles({"vocals"})),
      Subdir("htdemucs", "a", StemFiles(Stems)),
      {<<"htdemucs">>} \cup Subdir("demucs", "a", StemFiles({"vocals", "drums"})),
      {<<"htdemucs_6s">>} \cup Subdir("htdemucs", "a", StemFiles(Stems)),
      Subdir("mdx_extra", "a", StemFiles(Stems))
        \cup Subdir("mdx_extra", "b", StemFiles({"drums"})),
      Subdir("htdemucs_6s", InputName,
             {"vocals.mp3", "no_vocals.mp3", "drums.wav"}),
      {<<"mdx_extra">>} }
Trees == UsualTrees \cup OtherTrees

VARIABLES
    now,      \* time.time(), in minutes
    up,       \* "serving" | "boot": module import runs before any request
    jobs,     \* the index: job id -> heap cell or NoObj
    heap,     \* heap cell -> record (NoRec when the cell is free)
    disk,     \* JOBS_FOLDER: job id -> record (NoRec when no file)
    files,    \* per job: the saved upload and the job's output directory
    submit,   \* process_audio handler
    runner,   \* separate_audio thread of each job
    sim,      \* simulate_progress thread of each job
    child,    \* the Demucs child process of each job
    loader,   \* load_all_jobs_from_disk (startup or reload handler)
    poller,   \* get_job_status handler
    admin,    \* clear_cache / clear_disk_jobs handler
    issued,   \* job ids already generated
    counts,   \* environment events so far
    diskok,   \* whether writes to JOBS_FOLDER succeed
    sweeper   \* cleanup_old_files (timer thread)

vars == <<now, up, jobs, heap, disk, files, submit, runner, sim, child,
          loader, poller, admin, issued, counts, diskok,
          sweeper>>

\* ------------------------------------------------------------- heap
Roots(jb, ld, pl) ==
    ({jb[j] : j \in JobIds} \cup {ld.job_data, pl.job}) \ {NoObj}

\* Cells nobody refers to are garbage: they are reset so that they can be
\* handed out again.
Gc(h, jb, ld, pl) ==
    [o \in Objs |-> IF o \in Roots(jb, ld, pl) THEN h[o] ELSE NoRec]

FreshObj == CHOOSE o \in Objs : o \notin Roots(jobs, loader, poller)

EmptyIndex == [j \in JobIds |-> NoObj]

InIndex(j) == jobs[j] # NoObj
OnDisk(j) == disk[j] # NoRec
\* A job file that open(job_file, 'w') has emptied and json.dump has not
\* written out in full: json.load raises on it.
Torn == [NoRec EXCEPT !.status = "torn"]
\* load_job_from_disk(job_id) returns a record: the file is there and parses.
Readable(j) == disk[j] \notin {NoRec, Torn}
IndexRec(j) == IF InIndex(j) THEN heap[jobs[j]] ELSE NoRec

\* ------------------------------------------------------------ idle states
\* The body and status code a handler returns; code 0: nothing returned yet.
\* Keys the body does not carry are None.
NoResponse == [code |-> 0, status |-> "", progress |-> 0, message |-> None,
               tracks |-> None, bpm |-> None, duration |-> None,
               error |-> None]
\* A POST /api/process request: whether it has an 'audio_file' part, the
\* part's filename (a sequence of characters) and the file's size in bytes.
NoRequestData == [has_file |-> FALSE, filename |-> <<>>, size |-> 0]
IdleSubmit == [pc |-> "idle", job_id |-> "None", job_data |-> NoRec,
               request |-> NoRequestData, response |-> NoResponse]
\* launch: how subprocess.Popen was called (nothing before the call).
NoLaunch == [called |-> FALSE, platform |-> "", node_env |-> "",
             backend_url |-> <<>>, cmd |-> <<>>, env |-> {},
             preexec_fn |-> FALSE]
NoMethods == <<>>
\* tracks = {}
NoTracks == <<>>
IdleRunner == [pc |-> "idle", methods |-> NoMethods, duration |-> 0,
               start_time |-> 0, launch |-> NoLaunch,
               separated_dir |-> NoDir, tracks |-> NoTracks, bpm |-> 0,
               err |-> ""]
IdleSim == [pc |-> "off", current_progress |-> 0]
\* processing holds the ids the pass counted in processing_jobs; quiet records
\* whether no runner thread was running when the pass began.
IdleLoader == [pc |-> "idle", who |-> "none", passes |-> 0, ran |-> 0,
               job_files |-> <<>>,
               job_id |-> "None", job_data |-> NoObj, stuck |-> FALSE,
               processing |-> {}, quiet |-> FALSE]
\* recovered: the request took the record from the store (index miss).
IdlePoller == [pc |-> "idle", job_id |-> "None", job |-> NoObj,
               recovered |-> FALSE, response |-> NoResponse]
IdleAdmin == [pc |-> "idle"]
IdleSweeper == [pc |-> "idle", cutoff_time |-> 0, jobs_to_remove |-> {},
                job_id |-> "None"]
NoFiles == [upload |-> FALSE, output |-> "absent", tree |-> {}]

Init ==
    /\ now = 0
    /\ up = "serving"
    /\ jobs = EmptyIndex
    /\ heap = [o \in Objs |-> NoRec]
    /\ disk = [j \in JobIds |-> NoRec]
    /\ files = [j \in JobIds |-> NoFiles]
    /\ submit = IdleSubmit
    /\ runner = [j \in JobIds |-> IdleRunner]
    /\ sim = [j \in JobIds |-> IdleSim]
    /\ child = [j \in JobIds |-> "none"]
    /\ loader = IdleLoader
    /\ poller = IdlePoller
    /\ admin = IdleAdmin
    /\ issued = {}
    /\ counts = 0
    /\ diskok = TRUE
    /\ sweeper = IdleSweeper

\* The separate_audio thread of j is running / has ended (returned, or died of
\* an exception raised in its except clause).  "lost": gone with a crash.
RunnerActive(j) == runner[j].pc \notin {"idle", "done", "died", "lost"}
RunnerEnded(j) == runner[j].pc \in {"done", "died"}

\* gunicorn.conf.py runs one sync worker: one request is handled at a time
\* (the runner and progress threads of earlier requests keep running).
NoRequest ==
    /\ up = "serving"
    /\ submit.pc = "idle"
    /\ loader.pc = "idle"
    /\ poller.pc = "idle"
    /\ admin.pc = "idle"

\* ------------------------------------------------------------ the clock
Tick ==
    /\ counts < MaxEvents
    /\ now' = now + TickMinutes
    /\ counts' = counts + 1
    /\ UNCHANGED <<up, jobs, heap, disk, files, submit, runner, sim, child,
                   loader, poller, admin, issued, diskok,
                   sweeper>>

\* The clock at the scale of a separation.
TickShort ==
    /\ counts < MaxEvents
    /\ now' = now + ShortTickMinutes
    /\ counts' = counts + 1
    /\ UNCHANGED <<up, jobs, heap, disk, files, submit, runner, sim, child,
                   loader, poller, admin, issued, diskok,
                   sweeper>>

\* ------------------------------------------------- save / update_progress
\* save_job_to_disk(job_id, job_data): json.dump of the whole record; an
\* exception of the write is caught and logged, and the file is left as it was.
SaveJobToDisk(d, j, rec) == IF diskok THEN [d EXCEPT ![j] = rec] ELSE d

\* The record after update_progress's two assignments (message is always
\* passed by the callers, and is never empty).
WithProgress(rec, progress, message) ==
    [rec EXCEPT !.progress = progress, !.message = Some(message)]

\* update_progress that takes its assignments back when the write fails.
UpdateProgressUndone(j, progress, message) ==
    IF InIndex(j) /\ diskok
    THEN /\ heap' = [heap EXCEPT ![jobs[j]] = WithProgress(@, progress, message)]
         /\ disk' = SaveJobToDisk(disk, j, heap'[jobs[j]])
    ELSE UNCHANGED <<heap, disk>>

\* update_progress that saves what it was given for an id not in the index.
UpdateProgressAlways(j, progress, message) ==
    IF InIndex(j)
    THEN /\ heap' = [heap EXCEPT ![jobs[j]] = WithProgress(@, progress, message)]
         /\ disk' = SaveJobToDisk(disk, j, heap'[jobs[j]])
    ELSE /\ disk' = SaveJobToDisk(disk, j, WithProgress(NoRec, progress, message))
         /\ UNCHANGED heap

\* update_progress(job_id, progress, message): under jobs_lock; an id that is
\* not in the index is only logged.
UpdateProgress(j, progress, message) ==
    IF InIndex(j)
    THEN /\ heap' = [heap EXCEPT ![jobs[j]] = WithProgress(@, progress, message)]
         /\ disk' = SaveJobToDisk(disk, j, heap'[jobs[j]])
    ELSE UNCHANGED <<heap, disk>>

\* ------------------------------------------------------ process_audio
MAX_CONTENT_LENGTH == 100 * 1024 * 1024
MAX_FILE_SIZE == 50 * 1024 * 1024
ALLOWED_EXTENSIONS ==
    {<<"m", "p", "3">>, <<"w", "a", "v">>, <<"f", "l", "a", "c">>,
     <<"m", "4", "a">>, <<"a", "a", "c">>, <<"o", "g", "g">>}

\* str.lower() on the characters the filenames below are made of.
Lower(c) ==
    CASE c = "M" -> "m" [] c = "P" -> "p" [] c = "T" -> "t" [] c = "X" -> "x"
      [] OTHER -> c
LowerSeq(f) == [i \in 1..Len(f) |-> Lower(f[i])]

\* filename.rsplit('.', 1)[1]: what follows the last '.'.
LastDot(f) ==
    CHOOSE i \in 1..Len(f) : f[i] = "." /\ \A k \in (i + 1)..Len(f) : f[k] # "."
Extension(f) == SubSeq(f, LastDot(f) + 1, Len(f))

\* The test without its extension part: any name with a dot passes.
allowed_file_any(filename) ==
    \E i \in 1..Len(filename) : filename[i] = "."

\* '.' in filename and filename.rsplit('.', 1)[1].lower() in ALLOWED_EXTENSIONS
allowed_file(filename) ==
    /\ \E i \in 1..Len(filename) : filename[i] = "."
    /\ LowerSeq(Extension(filename)) \in ALLOWED_EXTENSIONS

\* Filenames a client may send: empty, allowed in lower and upper case,
\* refused, without a dot, with two dots, ending in a dot, and with an
\* allowed extension that is not the last one.
Filenames ==
    {<<>>,
     <<"a", ".", "m", "p", "3">>,
     <<"a", ".", "M", "P", "3">>,
     <<"a", ".", "t", "x", "t">>,
     <<"a", ".", "T", "X", "T">>,
     <<"m", "p", "3">>,
     <<"a", ".", "b", ".", "w", "a", "v">>,
     <<"a", ".">>,
     <<"a", ".", "m", "p", "3", ".", "t", "x", "t">>}

\* File sizes in bytes: small, at the limit, one byte over it, and more than
\* the request body may hold.
Sizes == {1000, MAX_FILE_SIZE, MAX_FILE_SIZE + 1, MAX_CONTENT_LENGTH + 1}

Requests ==
    {NoRequestData} \cup
    [has_file : {TRUE}, filename : Filenames, size : Sizes]

\* Content-Length of the multipart body: the file and its framing.
ContentLength(req) == req.size + MultipartOverhead

\* Which return of process_audio a request reaches.  Flask refuses a body
\* longer than MAX_CONTENT_LENGTH when request.files is first read, which is
\* inside the try block: the except clause answers 500.
Validate(req) ==
    IF ContentLength(req) > MAX_CONTENT_LENGTH THEN "body_too_large"
    ELSE IF ~req.has_file THEN "no_file"
    ELSE IF req.filename = <<>> THEN "no_filename"
    ELSE IF ~allowed_file(req.filename) THEN "bad_type"
    ELSE IF req.size > MAX_FILE_SIZE THEN "file_too_large"
    ELSE "accept"

BadRequest(e) == [NoResponse EXCEPT !.code = 400, !.error = Some(e)]
ServerError == [NoResponse EXCEPT !.code = 500,
                                  !.error = Some("Internal server error")]

\* The three returns before a job id exists, and the except clause.
SubmitReject ==
    /\ NoRequest
    /\ \E req \in Requests :
         /\ Validate(req) \in {"body_too_large", "no_file", "no_filename",
                                "bad_type"}
         /\ submit' =
              [IdleSubmit EXCEPT
                 !.pc = "replied", !.request = req,
                 !.response =
                    CASE Validate(req) = "body_too_large" -> ServerError
                      [] Validate(req) = "no_file" ->
                           BadRequest("No audio file provided")
                      [] Validate(req) = "no_filename" ->
                           BadRequest("No file selected")
                      [] OTHER -> BadRequest("File type not supported")]
    /\ UNCHANGED <<now, up, jobs, heap, disk, files, runner, sim, child,
                   loader, poller, admin, issued, counts, diskok,
                   sweeper>>

\* job_id = str(uuid.uuid4()); file.save(file_path): the file is too large.
SubmitOversize(j) ==
    /\ NoRequest
    /\ j \notin issued
    /\ issued' = issued \cup {j}
    /\ files' = [files EXCEPT ![j].upload = TRUE]
    /\ \E req \in Requests :
         /\ Validate(req) = "file_too_large"
         /\ submit' = [IdleSubmit EXCEPT !.pc = "unlink", !.job_id = j,
                                         !.request = req]
    /\ UNCHANGED <<now, up, jobs, heap, disk, runner, sim, child, loader,
                   poller, admin, counts, diskok, sweeper>>

\* file_path.unlink(); return {'error': 'File too large. ...'}, 400
SubmitUnlink ==
    /\ submit.pc = "unlink"
    /\ files' = [files EXCEPT ![submit.job_id].upload = FALSE]
    /\ submit' = [submit EXCEPT
                    !.pc = "replied",
                    !.response = BadRequest("File too large. Maximum size: 50MB")]
    /\ UNCHANGED <<now, up, jobs, heap, disk, runner, sim, child, loader,
                   poller, admin, issued, counts, diskok,
                   sweeper>>

\* The error response is on its way to the client.
SubmitReturn ==
    /\ submit.pc = "replied"
    /\ submit' = IdleSubmit
    /\ UNCHANGED <<now, up, jobs, heap, disk, files, runner, sim, child,
                   loader, poller, admin, issued, counts, diskok,
                   sweeper>>

\* The accepted path: the upload is saved, the size check passed.
\* with jobs_lock: jobs[job_id] = job_data
SubmitCreate(j) ==
    /\ NoRequest
    /\ j \notin issued
    /\ issued' = issued \cup {j}
    /\ files' = [files EXCEPT ![j].upload = TRUE]
    /\ LET o == FreshObj IN
        /\ heap' = [heap EXCEPT ![o] = NewJob(now)]
        /\ jobs' = [jobs EXCEPT ![j] = o]
    /\ \E req \in Requests :
         /\ Validate(req) = "accept"
         /\ submit' = [IdleSubmit EXCEPT !.pc = "save", !.job_id = j,
                                         !.job_data = NewJob(now),
                                         !.request = req]
    /\ UNCHANGED <<now, up, disk, runner, sim, child, loader, poller, admin, counts,
                   diskok, sweeper>>

\* save_job_to_disk(job_id, job_data): nothing has written to job_data since
\* it was built (no thread of the job exists yet), so its value is the new job.
SubmitSave ==
    /\ submit.pc = "save"
    /\ disk' = SaveJobToDisk(disk, submit.job_id, submit.job_data)
    /\ submit' = [submit EXCEPT !.pc = "start"]
    /\ UNCHANGED <<now, up, jobs, heap, files, runner, sim, child, loader,
                   poller, admin, issued, counts, diskok,
                   sweeper>>

\* thread.start(); return {'jobId': job_id}, 200
SubmitStart ==
    /\ submit.pc = "start"
    /\ runner' = [runner EXCEPT ![submit.job_id].pc = "init"]
    /\ submit' = IdleSubmit
    /\ UNCHANGED <<now, up, jobs, heap, disk, files, sim, child, loader,
                   poller, admin, issued, counts, diskok,
                   sweeper>>

\* ------------------------------------------------------ separate_audio
Max(a, b) == IF a >= b THEN a ELSE b

\* estimated_processing_time = max(duration * 0.4, 30), in tenths of a second.
EstimatedTenths(duration) == Max(duration * 4, 300)

\* timeout_seconds = max(duration * 180, 600), replaced by 1800 when it is
\* more than 3600.
TimeoutSeconds(duration) ==
    LET t == Max(duration * 180, 600) IN IF t > 3600 THEN 1800 ELSE t

ElapsedSeconds(j) == (now - runner[j].start_time) * 60

\* Where an exception raised in the try block goes: the except clause.
Raise(j, e) == [runner EXCEPT ![j].pc = "except", ![j].err = e]

\* update_progress(job_id, 5, "Initializing...")
RunInit(j) ==
    /\ runner[j].pc = "init"
    /\ UpdateProgress(j, 5, "Initializing...")
    /\ runner' = [runner EXCEPT ![j].pc = "mark"]
    /\ UNCHANGED <<now, up, jobs, files, submit, sim, child, loader, poller,
                   admin, issued, counts, diskok, sweeper>>

\* with jobs_lock: jobs[job_id]['status'] = 'processing'   (not saved to disk)
RunMarkProcessing(j) ==
    /\ runner[j].pc = "mark"
    /\ IF InIndex(j)
       THEN /\ heap' = [heap EXCEPT ![jobs[j]].status = "processing"]
            /\ runner' = [runner EXCEPT ![j].pc = "mkdir"]
       ELSE /\ runner' = Raise(j, ERR_KEY)
            /\ UNCHANGED heap
    /\ UNCHANGED <<now, up, jobs, disk, files, submit, sim, child, loader,
                   poller, admin, issued, counts, diskok,
                   sweeper>>

\* job_output_dir.mkdir(exist_ok=True)
RunMkdir(j) ==
    /\ runner[j].pc = "mkdir"
    /\ files' = [files EXCEPT ![j].output =
                    IF @ = "absent" THEN "created" ELSE @]
    /\ runner' = [runner EXCEPT ![j].pc = "analyze"]
    /\ UNCHANGED <<now, up, jobs, heap, disk, submit, sim, child, loader,
                   poller, admin, issued, counts, diskok,
                   sweeper>>

\* update_progress(job_id, 10, "Analyzing audio file...")
RunAnalyze(j) ==
    /\ runner[j].pc = "analyze"
    /\ UpdateProgress(j, 10, "Analyzing audio file...")
    /\ runner' = [runner EXCEPT ![j].pc = "duration"]
    /\ UNCHANGED <<now, up, jobs, files, submit, sim, child, loader, poller,
                   admin, issued, counts, diskok, sweeper>>

\* An exception leaves the function (durations and tempos are >= 0).
Raised == -1
\* ffprobe ran and its return code is not 0.
NonZero == -2
DEFAULT_DURATION == 180
SANITY_SECONDS == 1800

\* get_audio_duration(file_path) from what its three methods give: meta is
\* librosa.get_duration (or Raised), samples is len(y) / sr of librosa.load
\* (or Raised), probe is ffprobe's float(stdout) (Raised when subprocess.run
\* or float() raises, NonZero for a non-zero return code).
get_audio_duration(meta, samples, probe) ==
    IF meta = Raised \/ (meta > SANITY_SECONDS /\ samples = Raised)
    THEN (IF probe >= 0 THEN probe ELSE DEFAULT_DURATION)
    ELSE IF meta > SANITY_SECONDS /\ samples < meta THEN samples ELSE meta

\* detect_bpm(file_path) from what its two methods give (tempo, or Raised):
\* int(tempo) of the first method with tempo > 0, else None (0).
detect_bpm(primary, secondary) ==
    IF primary > 0 THEN primary
    ELSE IF secondary > 0 THEN secondary
    ELSE 0

\* What the methods may give for the uploads considered.
SourceSeconds == {0, 4, 10, 11, 16, 20, 21, 180, 2000}
MetaOutcomes == {Raised} \cup SourceSeconds
SampleOutcomes == {Raised, 16, 1900, 2400}
ProbeOutcomes == {Raised, NonZero, 16}
TempoOutcomes == {Raised, 0, 120}
\* <<meta, samples, probe>>: an upload none of the methods can read, and any.
UnreadableUpload == {<<Raised, Raised, Raised>>}
AnyUpload == MetaOutcomes \X SampleOutcomes \X ProbeOutcomes
AnyDurations == {get_audio_duration(u[1], u[2], u[3]) : u \in AnyUpload}
AnyBpm == {detect_bpm(t1, t2) : t1 \in TempoOutcomes, t2 \in TempoOutcomes}
ERR_ANALYSIS == "get_audio_duration raised"

\* duration = get_audio_duration(input_file);
\* update_progress(job_id, 15, "Preparing separation...")
\* (the runner keeps what the three methods gave for the upload).
RunDurationFrom(j, uploads) ==
    /\ runner[j].pc = "duration"
    /\ \E u \in uploads :
         LET d == get_audio_duration(u[1], u[2], u[3]) IN
         IF d = Raised
         THEN /\ runner' = Raise(j, ERR_ANALYSIS)
              /\ UNCHANGED <<heap, disk>>
         ELSE /\ runner' = [runner EXCEPT ![j].pc = "starting",
                                          ![j].methods = u,
                                          ![j].duration = d]
              /\ UpdateProgress(j, 15, "Preparing separation...")
    /\ UNCHANGED <<now, up, jobs, files, submit, sim, child, loader, poller,
                   admin, issued, counts, diskok, sweeper>>

\* The upload is one whose duration cannot be read: the default.
RunDuration(j) == RunDurationFrom(j, UnreadableUpload)
\* Any upload, with any of its duration methods failing.
RunDurationAny(j) == RunDurationFrom(j, AnyUpload)
\* An upload whose metadata is read, of any length.
MeasuredUpload == {<<m, 1900, Raised>> : m \in SourceSeconds}
RunDurationMeasured(j) == RunDurationFrom(j, MeasuredUpload)

\* update_progress(job_id, 20, "Starting audio separation...")
RunStarting(j) ==
    /\ runner[j].pc = "starting"
    /\ UpdateProgress(j, 20, "Starting audio separation...")
    /\ runner' = [runner EXCEPT ![j].pc = "popen"]
    /\ UNCHANGED <<now, up, jobs, files, submit, sim, child, loader, poller,
                   admin, issued, counts, diskok, sweeper>>

\* A URL is the sequence of its pieces; no piece is part of another, so that
\* a substring test is a test on the pieces.
\* os.getenv('BACKEND_URL', 'http://localhost:3001') when the variable is unset
DefaultBackendUrl == <<"http://", "localhost:3001">>
BackendUrls ==
    {DefaultBackendUrl,
     <<"http://", "backend.up.", "railway.app">>,
     <<"https://", "backend.up.", "railway.app">>,
     <<"http://", "example.com">>,
     <<"http://", "example.com", "/", "railway.app">>,
     <<"http://", "gw.up.", "railway.app", "/fwd/", "http://", "inner:3001">>}

\* s.replace(old, new): every occurrence of the piece old becomes new.
str_replace(s, old, new) ==
    [i \in DOMAIN s |-> IF s[i] = old THEN new ELSE s[i]]

\* if 'railway.app' in backend_url and backend_url.startswith('http://'):
\*     backend_url = backend_url.replace('http://', 'https://')
FrontendUrl(backend_url) ==
    IF (\E i \in DOMAIN backend_url : backend_url[i] = "railway.app")
       /\ backend_url # <<>> /\ backend_url[1] = "http://"
    THEN str_replace(backend_url, "http://", "https://")
    ELSE backend_url

\* f"{backend_url}/api/tracks/{job_id}/{demucs_file}"
track_url(backend_url, job_id, demucs_file) ==
    FrontendUrl(backend_url) \o <<"/api/tracks/", job_id, "/", demucs_file>>

\* The tracks dict for the logical names found (the key of track_mapping
\* that gives the name is the file of the URL).
TrackUrls(backend_url, job_id, names) ==
    [n \in names |->
       track_url(backend_url, job_id,
                 IF n \in Stems THEN StemFileOf(n) ELSE n)]

\* The host: platform.system(), os.environ.get('NODE_ENV') ("" for unset)
\* and os.getenv('BACKEND_URL', ...).
Platforms == {"Linux", "Darwin", "Windows"}
NodeEnvs == {"", "development", "production"}
Hosts ==
    [platform : Platforms, node_env : NodeEnvs, backend_url : BackendUrls]
ProductionHost ==
    [platform |-> "Linux", node_env |-> "production",
     backend_url |-> DefaultBackendUrl]

\* cmd = ['python', '-m', 'demucs.separate', ..., '-o', str(job_output_dir),
\* str(input_file)]
DemucsCmd ==
    <<"python", "-m", "demucs.separate", "--mp3", "--mp3-bitrate", "128",
      "-n", "htdemucs_6s", "--device", "cpu", "-o", "job_output_dir",
      "input_file">>
\* env.update({...}): the entries set on top of os.environ.copy()
ChildEnv ==
    {<<"OMP_NUM_THREADS", "1">>, <<"MKL_NUM_THREADS", "1">>,
     <<"NUMBA_NUM_THREADS", "1">>, <<"PYTORCH_NUM_THREADS", "1">>,
     <<"MALLOC_TRIM_THRESHOLD_", "0">>}
ERR_IMPORT == "No module named 'resource'"

\* The test with `and` for `or`.
use_preexec_fn_both(h) == h.platform # "Darwin" /\ h.node_env = "production"

\* use_preexec_fn = platform.system() != 'Darwin'
\*                  or os.environ.get('NODE_ENV') == 'production'
use_preexec_fn(h) == h.platform # "Darwin" \/ h.node_env = "production"

\* The two calls of subprocess.Popen: cmd and env=env in both, and
\* preexec_fn=set_memory_limit in the first only (backend_url: BACKEND_URL
\* of the service's environment, which env copies).
Launch(h) ==
    [called |-> TRUE, platform |-> h.platform, node_env |-> h.node_env,
     backend_url |-> h.backend_url,
     cmd |-> DemucsCmd, env |-> ChildEnv, preexec_fn |-> use_preexec_fn(h)]

\* import resource (the module exists on Unix only: elsewhere the import
\* raises, outside the inner try); process = subprocess.Popen(...);
\* start_time = time.time(); progress_thread.start()
RunPopenOn(j, hosts) ==
    /\ runner[j].pc = "popen"
    /\ \E h \in hosts :
         IF h.platform = "Windows"
         THEN /\ runner' = Raise(j, ERR_IMPORT)
              /\ UNCHANGED <<child, sim>>
         ELSE /\ runner' = [runner EXCEPT ![j].pc = "communicate",
                                          ![j].start_time = now,
                                          ![j].launch = Launch(h)]
              /\ child' = [child EXCEPT ![j] = "running"]
              /\ sim' = [sim EXCEPT ![j].pc = "poll"]
    /\ UNCHANGED <<now, up, jobs, heap, disk, files, submit, loader, poller,
                   admin, issued, counts, diskok, sweeper>>

\* The deployed service: Linux with NODE_ENV=production.
RunPopen(j) == RunPopenOn(j, {ProductionHost})
\* Any host.
RunPopenAny(j) == RunPopenOn(j, Hosts)

\* Popen raises: raise Exception(f"Demucs initialization failed: {e}")
RunPopenFails(j) ==
    /\ runner[j].pc = "popen"
    /\ runner' = Raise(j, ERR_INIT)
    /\ UNCHANGED <<now, up, jobs, heap, disk, files, submit, sim, child,
                   loader, poller, admin, issued, counts, diskok,
                   sweeper>>

\* process.communicate(timeout=timeout_seconds) returns: the child has exited.
\* if process.returncode != 0: raise Exception(f"Demucs failed: {stderr}")
RunCommunicate(j) ==
    /\ runner[j].pc = "communicate"
    /\ child[j] \in {"exit0", "exit1"}
    /\ runner' = IF child[j] = "exit0"
                 THEN [runner EXCEPT ![j].pc = "organize"]
                 ELSE Raise(j, ERR_EXIT)
    /\ UNCHANGED <<now, up, jobs, heap, disk, files, submit, sim, child,
                   loader, poller, admin, issued, counts, diskok,
                   sweeper>>

\* The timeout handled without process.kill().
RunTimeoutNoKill(j) ==
    /\ runner[j].pc = "communicate"
    /\ child[j] = "running"
    /\ ElapsedSeconds(j) >= TimeoutSeconds(runner[j].duration)
    /\ runner' = Raise(j, ERR_TIMEOUT)
    /\ UNCHANGED <<now, up, jobs, heap, disk, files, submit, sim, child,
                   loader, poller, admin, issued, counts, diskok,
                   sweeper>>

\* except subprocess.TimeoutExpired: process.kill(); process.communicate();
\* raise Exception("Audio separation timed out after ...")
RunTimeout(j) ==
    /\ runner[j].pc = "communicate"
    /\ child[j] = "running"
    /\ ElapsedSeconds(j) >= TimeoutSeconds(runner[j].duration)
    /\ child' = [child EXCEPT ![j] = "killed"]
    /\ runner' = Raise(j, ERR_TIMEOUT)
    /\ UNCHANGED <<now, up, jobs, heap, disk, files, submit, sim, loader,
                   poller, admin, issued, counts, diskok,
                   sweeper>>

\* update_progress(job_id, 85, "Processing completed, organizing files...")
RunOrganize(j) ==
    /\ runner[j].pc = "organize"
    /\ UpdateProgress(j, 85, "Processing completed, organizing files...")
    /\ runner' = [runner EXCEPT ![j].pc = "resolve"]
    /\ UNCHANGED <<now, up, jobs, files, submit, sim, child, loader, poller,
                   admin, issued, counts, diskok, sweeper>>

\* subdirs = [d for d in test_dir.iterdir() if d.is_dir()]
Subdirs(tree, m) == {p \in tree : Len(p) = 2 /\ p[1] = m}

\* The loop over possible_dir with a break at the first directory that
\* exists, whether or not it has a subdirectory.
RECURSIVE FallbackFirstExisting(_, _)
FallbackFirstExisting(tree, dirs) ==
    IF dirs = <<>> THEN {}
    ELSE IF <<Head(dirs)>> \in tree
         THEN Subdirs(tree, Head(dirs))
         ELSE FallbackFirstExisting(tree, Tail(dirs))

\* for possible_dir in [...]: the first directory that exists and has a
\* subdirectory gives subdirs[0]; iterdir() lists in no defined order, so
\* subdirs[0] is any of the subdirectories.  {}: separated_dir stays as it was.
RECURSIVE Fallback(_, _)
Fallback(tree, dirs) ==
    IF dirs = <<>> THEN {}
    ELSE IF <<Head(dirs)>> \in tree /\ Subdirs(tree, Head(dirs)) # {}
         THEN Subdirs(tree, Head(dirs))
         ELSE Fallback(tree, Tail(dirs))

\* The directories separated_dir may end up as; {} when it does not exist
\* after the search ("Separated files not found").
ResolveDir(tree) ==
    IF Nominal \in tree THEN {Nominal}
    ELSE IF <<"htdemucs_6s">> \in tree THEN Subdirs(tree, "htdemucs_6s")
    ELSE Fallback(tree, ModelDirs)

\* The loop over track_mapping that takes every file of the directory.
TracksOfAllFiles(tree, dir) ==
    {IF p[3] \in DOMAIN track_mapping THEN track_mapping[p[3]] ELSE p[3] :
       p \in {q \in tree : Len(q) = 3 /\ q[1] = dir[1] /\ q[2] = dir[2]}}

\* for demucs_file, track_name in track_mapping.items():
\*     if (separated_dir / demucs_file).exists(): tracks[track_name] = url
TracksIn(tree, dir) ==
    {track_mapping[f] :
       f \in {g \in DOMAIN track_mapping : <<dir[1], dir[2], g>> \in tree}}

\* The resolution without its last test: separated_dir is used as it is.
RunResolveUnchecked(j) ==
    /\ runner[j].pc = "resolve"
    /\ \E dir \in ResolveDir(files[j].tree) \cup {Nominal} :
         runner' = [runner EXCEPT ![j].pc = "bpm_start",
                                  ![j].separated_dir = dir,
                                  ![j].tracks =
                                    TrackUrls(runner[j].launch.backend_url, j,
                                              TracksIn(files[j].tree, dir))]
    /\ UNCHANGED <<now, up, jobs, heap, disk, files, submit, sim, child,
                   loader, poller, admin, issued, counts, diskok,
                   sweeper>>

\* Resolution of separated_dir, then the loop over track_mapping.
\* if not separated_dir.exists(): raise Exception("Separated files not found ...")
RunResolve(j) ==
    /\ runner[j].pc = "resolve"
    /\ LET found == ResolveDir(files[j].tree) IN
         IF found = {}
         THEN runner' = Raise(j, ERR_NOTFOUND)
         ELSE \E dir \in found :
                runner' = [runner EXCEPT
                             ![j].pc = "bpm_start",
                             ![j].separated_dir = dir,
                             ![j].tracks =
                               TrackUrls(runner[j].launch.backend_url, j,
                                         TracksIn(files[j].tree, dir))]
    /\ UNCHANGED <<now, up, jobs, heap, disk, files, submit, sim, child,
                   loader, poller, admin, issued, counts, diskok,
                   sweeper>>

\* update_progress(job_id, 90, "Detecting BPM...")
RunBpmStart(j) ==
    /\ runner[j].pc = "bpm_start"
    /\ UpdateProgress(j, 90, "Detecting BPM...")
    /\ runner' = [runner EXCEPT ![j].pc = "bpm"]
    /\ UNCHANGED <<now, up, jobs, files, submit, sim, child, loader, poller,
                   admin, issued, counts, diskok, sweeper>>

\* bpm = detect_bpm(input_file); update_progress(job_id, 95, "Finalizing...")
RunDetectBpm(j) ==
    /\ runner[j].pc = "bpm"
    /\ \E b \in BpmResults :
         runner' = [runner EXCEPT ![j].pc = "finalize", ![j].bpm = b]
    /\ UpdateProgress(j, 95, "Finalizing...")
    /\ UNCHANGED <<now, up, jobs, files, submit, sim, child, loader, poller,
                   admin, issued, counts, diskok, sweeper>>

\* job_update of the success path, applied by jobs[job_id].update(job_update)
Completed(rec, r, t) ==
    [rec EXCEPT !.status = "completed", !.progress = 100,
                !.tracks = Some(r.tracks), !.bpm = Some(r.bpm),
                !.duration = Some(r.duration), !.completed_at = Some(t),
                !.message = Some("Separation completed successfully!")]

\* job_update of the except clause
Failed(rec, e, t) ==
    [rec EXCEPT !.status = "failed", !.error = Some(e),
                !.message = Some("Processing failed"),
                !.completed_at = Some(t)]

\* with jobs_lock: jobs[job_id].update(job_update); save_job_to_disk(...)
\* jobs[job_id] raises KeyError when the id is not in the index.
RunFinalize(j) ==
    /\ runner[j].pc = "finalize"
    /\ IF InIndex(j)
       THEN /\ heap' = [heap EXCEPT ![jobs[j]] = Completed(@, runner[j], now)]
            /\ disk' = SaveJobToDisk(disk, j, heap'[jobs[j]])
            /\ runner' = [runner EXCEPT ![j].pc = "done"]
       ELSE /\ runner' = Raise(j, ERR_KEY)
            /\ UNCHANGED <<heap, disk>>
    /\ UNCHANGED <<now, up, jobs, files, submit, sim, child, loader, poller,
                   admin, issued, counts, diskok, sweeper>>

\* except Exception as e: with jobs_lock: jobs[job_id].update(job_update);
\* save_job_to_disk(...).  A KeyError raised here leaves the thread with no
\* handler: the thread dies and the record is not written.
RunExcept(j) ==
    /\ runner[j].pc = "except"
    /\ IF InIndex(j)
       THEN /\ heap' = [heap EXCEPT ![jobs[j]] = Failed(@, runner[j].err, now)]
            /\ disk' = SaveJobToDisk(disk, j, heap'[jobs[j]])
            /\ runner' = [runner EXCEPT ![j].pc = "done"]
       ELSE /\ runner' = [runner EXCEPT ![j].pc = "died"]
            /\ UNCHANGED <<heap, disk>>
    /\ UNCHANGED <<now, up, jobs, files, submit, sim, child, loader, poller,
                   admin, issued, counts, diskok, sweeper>>


\* ------------------------------------------------------ the child process
\* The tool ends on its own: exit code 0 with what it wrote into the job's
\* output directory (one of trees), exit code 0 with nothing written, or a
\* non-zero exit code.
ChildExitWith(j, trees) ==
    /\ child[j] = "running"
    /\ \/ /\ child' = [child EXCEPT ![j] = "exit0"]
          /\ \E t \in trees :
               files' = [files EXCEPT ![j].output = "created", ![j].tree = t]
       \/ /\ child' = [child EXCEPT ![j] = "exit0"]
          /\ UNCHANGED files
       \/ /\ child' = [child EXCEPT ![j] = "exit1"]
          /\ UNCHANGED files
    /\ UNCHANGED <<now, up, jobs, heap, disk, submit, runner, sim, loader,
                   poller, admin, issued, counts, diskok,
                   sweeper>>

\* The tool writes <job_output_dir>/htdemucs_6s/<input name>/.
ChildExit(j) == ChildExitWith(j, UsualTrees)
\* The tool writes any of the layouts.
ChildExitAny(j) == ChildExitWith(j, Trees)

\* ------------------------------------------------------ simulate_progress
\* The progress without min(..., 1.0).
SimProgressUncapped(elapsed, duration) ==
    20 + ((65 * elapsed * 10) \div EstimatedTenths(duration))

\* int(20 + (85 - 20) * min(elapsed / estimated_processing_time, 1.0))
SimProgress(elapsed, duration) ==
    IF elapsed * 10 >= EstimatedTenths(duration)
    THEN 85
    ELSE 20 + ((65 * elapsed * 10) \div EstimatedTenths(duration))

SimMessage(p) ==
    IF p < 30 THEN "Loading lightweight model..."
    ELSE IF p < 50 THEN "Separating vocals..."
    ELSE IF p < 65 THEN "Separating drums..."
    ELSE IF p < 80 THEN "Separating bass..."
    ELSE "Finalizing separation..."

\* The loop as `while True`.
SimPollForever(j) ==
    /\ sim[j].pc = "poll"
    /\ sim' = [sim EXCEPT ![j].pc = "update",
                          ![j].current_progress =
                              SimProgress(ElapsedSeconds(j), runner[j].duration)]
    /\ UNCHANGED <<now, up, jobs, heap, disk, files, submit, runner, child,
                   loader, poller, admin, issued, counts, diskok,
                   sweeper>>

\* while process.poll() is None: ... current_progress = ...
SimPoll(j) ==
    /\ sim[j].pc = "poll"
    /\ sim' = IF child[j] = "running"
              THEN [sim EXCEPT ![j].pc = "update",
                               ![j].current_progress =
                                   SimProgress(ElapsedSeconds(j), runner[j].duration)]
              ELSE [sim EXCEPT ![j] = [pc |-> "end", current_progress |-> 0]]
    /\ UNCHANGED <<now, up, jobs, heap, disk, files, submit, runner, child,
                   loader, poller, admin, issued, counts, diskok,
                   sweeper>>

\* update_progress(job_id, int(current_progress), message); time.sleep(10)
SimUpdate(j) ==
    /\ sim[j].pc = "update"
    /\ UpdateProgress(j, sim[j].current_progress, SimMessage(sim[j].current_progress))
    /\ sim' = [sim EXCEPT ![j].pc = "poll"]
    /\ UNCHANGED <<now, up, jobs, files, submit, runner, child, loader,
                   poller, admin, issued, counts, diskok,
                   sweeper>>


\* ------------------------------------------------------- serve_track
\* secure_filename(filename): path separators and leading dots go; a name of
\* ASCII letters, digits and inner dots comes back as it is.
secure_filename(filename) ==
    CASE filename = "../vocals.mp3" -> "vocals.mp3"
      [] filename = ".vocals.mp3" -> "vocals.mp3"
      [] OTHER -> filename

\* model_path.rglob(filename) with is_file(): the files of that name below
\* the model directory.
Rglob(tree, m, filename) ==
    {p \in tree : Len(p) = 3 /\ p[1] = m /\ p[3] = filename}

\* The search that stops at the first model directory that exists.
RECURSIVE FindTrackFirstExisting(_, _, _)
FindTrackFirstExisting(tree, dirs, filename) ==
    IF dirs = <<>> THEN {}
    ELSE IF <<Head(dirs)>> \in tree
         THEN Rglob(tree, Head(dirs), filename)
         ELSE FindTrackFirstExisting(tree, Tail(dirs), filename)

\* for model_dir in [...]: if model_path.exists(): the first file rglob
\* gives (in no defined order), and the loop breaks once a file is found.
\* {}: track_file stays None.
RECURSIVE FindTrack(_, _, _)
FindTrack(tree, dirs, filename) ==
    IF dirs = <<>> THEN {}
    ELSE IF <<Head(dirs)>> \in tree /\ Rglob(tree, Head(dirs), filename) # {}
         THEN Rglob(tree, Head(dirs), filename)
         ELSE FindTrack(tree, Tail(dirs), filename)

\* serve_track(job_id, filename): the status code of the response, 200 with
\* send_file(track_file) and 404 when no file is found.  It reads the output
\* folder only, and neither the index nor the store.
serve_track(job_id, filename) ==
    IF job_id \in JobIds
       /\ FindTrack(files[job_id].tree, ModelDirs, secure_filename(filename)) # {}
    THEN 200
    ELSE 404

\* ------------------------------------------- load_all_jobs_from_disk
\* The age test with the boundary on the wrong side (>= for >).
IsStuckFromThirty(rec, t) == t - rec.created_at >= STUCK_MINUTES

\* if job_age_minutes > 30, with job_age_minutes = (time.time() - created_at) / 60
IsStuck(rec, t) == t - rec.created_at > STUCK_MINUTES

RecoveryError(stuck) == IF stuck THEN ERR_STUCK ELSE ERR_INTERRUPTED

RecoveryMessage(stuck) ==
    IF stuck THEN "Job was stuck and interrupted by service restart"
    ELSE "Job was interrupted when the service restarted"

\* Every order in which JOBS_FOLDER.glob("*.json") may list the files.
RECURSIVE Orders(_)
Orders(S) ==
    IF S = {} THEN {<<>>}
    ELSE UNION {{<<x>> \o q : q \in Orders(S \ {x})} : x \in S}

\* reload_jobs_from_disk: with jobs_lock: jobs.clear()
ReloadStart ==
    /\ NoRequest
    /\ counts < MaxEvents
    /\ counts' = counts + 1
    /\ jobs' = EmptyIndex
    /\ loader' = [IdleLoader EXCEPT !.pc = "glob", !.who = "reload", !.passes = 1,
                                    !.quiet = \A j \in JobIds : ~RunnerActive(j)]
    /\ heap' = Gc(heap, jobs', loader', poller)
    /\ UNCHANGED <<now, up, disk, files, submit, runner, sim, child, poller,
                   admin, issued, diskok, sweeper>>

\* job_files = list(JOBS_FOLDER.glob("*.json"))
LoadGlob ==
    /\ loader.pc = "glob"
    /\ \E q \in Orders({j \in JobIds : OnDisk(j)}) :
         loader' = [loader EXCEPT !.pc = "next", !.job_files = q]
    /\ UNCHANGED <<now, up, jobs, heap, disk, files, submit, runner, sim,
                   child, poller, admin, issued, counts, diskok,
                   sweeper>>

\* for job_file in job_files: job_data = load_job_from_disk(job_id), a new
\* object, or None when the file is gone by now or does not parse.
LoadFile ==
    /\ loader.pc = "next"
    /\ loader.job_files # <<>>
    /\ LET j == Head(loader.job_files) IN
         IF Readable(j)
         THEN LET o == FreshObj IN
              /\ loader' = [loader EXCEPT !.pc = "insert", !.job_id = j,
                                          !.job_data = o,
                                          !.job_files = Tail(@)]
              /\ heap' = [heap EXCEPT ![o] = disk[j]]
         ELSE /\ loader' = [loader EXCEPT !.job_files = Tail(@)]
              /\ UNCHANGED heap
    /\ UNCHANGED <<now, up, jobs, disk, files, submit, runner, sim, child,
                   poller, admin, issued, counts, diskok,
                   sweeper>>

\* The pass without its insertion into the index.
LoadInsertSkipped ==
    /\ loader.pc = "insert"
    /\ loader' = [loader EXCEPT !.pc = "check"]
    /\ UNCHANGED <<now, up, jobs, heap, disk, files, submit, runner, sim,
                   child, poller, admin, issued, counts, diskok,
                   sweeper>>

\* with jobs_lock: jobs[job_id] = job_data
LoadInsert ==
    /\ loader.pc = "insert"
    /\ jobs' = [jobs EXCEPT ![loader.job_id] = loader.job_data]
    /\ loader' = [loader EXCEPT !.pc = "check"]
    /\ heap' = Gc(heap, jobs', loader', poller)
    /\ UNCHANGED <<now, up, disk, files, submit, runner, sim, child, poller,
                   admin, issued, counts, diskok, sweeper>>

\* The test as `in ('processing', 'failed')`.
LoadCheckFailedToo ==
    /\ loader.pc = "check"
    /\ loader' = IF heap[loader.job_data].status \in {"processing", "failed"}
                 THEN [loader EXCEPT !.pc = "status",
                                     !.processing = @ \cup {loader.job_id},
                                     !.stuck = IsStuck(heap[loader.job_data], now)]
                 ELSE [loader EXCEPT !.pc = "next", !.job_id = "None",
                                     !.job_data = NoObj]
    /\ heap' = Gc(heap, jobs, loader', poller)
    /\ UNCHANGED <<now, up, jobs, disk, files, submit, runner, sim, child,
                   poller, admin, issued, counts, diskok,
                   sweeper>>

\* if job_data.get('status') == 'processing': ... if job_age_minutes > 30:
LoadCheck ==
    /\ loader.pc = "check"
    /\ loader' = IF heap[loader.job_data].status = "processing"
                 THEN [loader EXCEPT !.pc = "status",
                                     !.processing = @ \cup {loader.job_id},
                                     !.stuck = IsStuck(heap[loader.job_data], now)]
                 ELSE [loader EXCEPT !.pc = "next", !.job_id = "None",
                                     !.job_data = NoObj]
    /\ heap' = Gc(heap, jobs, loader', poller)
    /\ UNCHANGED <<now, up, jobs, disk, files, submit, runner, sim, child,
                   poller, admin, issued, counts, diskok,
                   sweeper>>

\* job_data['status'] = 'failed'
LoadSetStatus ==
    /\ loader.pc = "status"
    /\ heap' = [heap EXCEPT ![loader.job_data].status = "failed"]
    /\ loader' = [loader EXCEPT !.pc = "error"]
    /\ UNCHANGED <<now, up, jobs, disk, files, submit, runner, sim, child,
                   poller, admin, issued, counts, diskok,
                   sweeper>>

\* job_data['error'] = ...
LoadSetError ==
    /\ loader.pc = "error"
    /\ heap' = [heap EXCEPT ![loader.job_data].error =
                                Some(RecoveryError(loader.stuck))]
    /\ loader' = [loader EXCEPT !.pc = "message"]
    /\ UNCHANGED <<now, up, jobs, disk, files, submit, runner, sim, child,
                   poller, admin, issued, counts, diskok,
                   sweeper>>

\* job_data['message'] = ...
LoadSetMessage ==
    /\ loader.pc = "message"
    /\ heap' = [heap EXCEPT ![loader.job_data].message =
                                Some(RecoveryMessage(loader.stuck))]
    /\ loader' = [loader EXCEPT !.pc = "completed_at"]
    /\ UNCHANGED <<now, up, jobs, disk, files, submit, runner, sim, child,
                   poller, admin, issued, counts, diskok,
                   sweeper>>

\* job_data['completed_at'] = time.time()
LoadSetCompletedAt ==
    /\ loader.pc = "completed_at"
    /\ heap' = [heap EXCEPT ![loader.job_data].completed_at = Some(now)]
    /\ loader' = [loader EXCEPT !.pc = "save"]
    /\ UNCHANGED <<now, up, jobs, disk, files, submit, runner, sim, child,
                   poller, admin, issued, counts, diskok,
                   sweeper>>

\* The pass without its save_job_to_disk call: the store keeps the record
\* as it was read.
LoadSaveForgotten ==
    /\ loader.pc = "save"
    /\ loader' = [loader EXCEPT !.pc = "next", !.job_id = "None",
                                !.job_data = NoObj]
    /\ heap' = Gc(heap, jobs, loader', poller)
    /\ UNCHANGED <<now, up, jobs, disk, files, submit, runner, sim, child,
                   poller, admin, issued, counts, diskok,
                   sweeper>>

\* save_job_to_disk(job_id, job_data)
LoadSave ==
    /\ loader.pc = "save"
    /\ disk' = SaveJobToDisk(disk, loader.job_id, heap[loader.job_data])
    /\ loader' = [loader EXCEPT !.pc = "next", !.job_id = "None",
                                !.job_data = NoObj]
    /\ heap' = Gc(heap, jobs, loader', poller)
    /\ UNCHANGED <<now, up, jobs, files, submit, runner, sim, child, poller,
                   admin, issued, counts, diskok, sweeper>>

\* The loop is over: load_all_jobs_from_disk has finished.
LoadFinish ==
    /\ loader.pc = "next"
    /\ loader.job_files = <<>>
    /\ loader' = [loader EXCEPT !.pc = "done"]
    /\ UNCHANGED <<now, up, jobs, heap, disk, files, submit, runner, sim,
                   child, poller, admin, issued, counts, diskok,
                   sweeper>>

\* The reload handler returns / the service starts to serve requests.  Under
\* Gunicorn the module import and create_app() each run
\* load_all_jobs_from_disk, so a startup may make a second pass first.
LoadReturn ==
    /\ loader.pc = "done"
    /\ IF loader.passes > 1
       THEN /\ loader' = [IdleLoader EXCEPT !.pc = "glob", !.who = loader.who,
                                            !.passes = loader.passes - 1,
                                            !.ran = loader.ran + 1,
                                            !.quiet = loader.quiet]
            /\ UNCHANGED up
       ELSE /\ loader' = IdleLoader
            /\ up' = "serving"
    /\ UNCHANGED <<now, jobs, heap, disk, files, submit, runner, sim, child,
                   poller, admin, issued, counts, diskok,
                   sweeper>>

\* ------------------------------------------------------ get_job_status
\* with jobs_lock: job = jobs.get(job_id)
PollStart(j) ==
    /\ NoRequest
    /\ counts < MaxEvents
    /\ counts' = counts + 1
    /\ poller' = IF InIndex(j)
                 THEN [IdlePoller EXCEPT !.pc = "respond", !.job_id = j,
                                         !.job = jobs[j]]
                 ELSE [IdlePoller EXCEPT !.pc = "disk", !.job_id = j]
    /\ UNCHANGED <<now, up, jobs, heap, disk, files, submit, runner, sim,
                   child, loader, admin, issued, diskok,
                   sweeper>>

\* return jsonify({'error': 'Job not found', ...}), 404
NotFound == [NoResponse EXCEPT !.code = 404, !.error = Some("Job not found")]

\* response = {'jobId', 'status', 'progress'}, 'message' when the record has
\* one, tracks / bpm / duration when completed (job.get: a missing tracks is
\* {}, a missing bpm or duration is null), error when failed (a missing
\* error is 'Unknown error').  0 stands for null in bpm and duration.
StatusResponse(rec) ==
    [code |-> 200, status |-> rec.status, progress |-> rec.progress,
     message |-> rec.message,
     tracks |-> IF rec.status = "completed"
                THEN (IF rec.tracks = None THEN Some(NoTracks) ELSE rec.tracks)
                ELSE None,
     bpm |-> IF rec.status = "completed"
             THEN (IF rec.bpm = None THEN Some(0) ELSE rec.bpm) ELSE None,
     duration |-> IF rec.status = "completed"
                  THEN (IF rec.duration = None THEN Some(0) ELSE rec.duration)
                  ELSE None,
     error |-> IF rec.status = "failed"
               THEN (IF rec.error = None THEN Some("Unknown error")
                     ELSE rec.error)
               ELSE None]

\* The handler without its fallback: an index miss is answered 404 at once.
PollDiskSkipped ==
    /\ poller.pc = "disk"
    /\ poller' = [poller EXCEPT !.pc = "replied", !.response = NotFound]
    /\ UNCHANGED <<now, up, jobs, heap, disk, files, submit, runner, sim,
                   child, loader, admin, issued, counts, diskok,
                   sweeper>>

\* if not job: job = load_job_from_disk(job_id); no file, or a file that
\* does not parse: 404
PollDisk ==
    /\ poller.pc = "disk"
    /\ IF Readable(poller.job_id)
       THEN LET o == FreshObj IN
            /\ poller' = [poller EXCEPT !.pc = "cache", !.job = o]
            /\ heap' = [heap EXCEPT ![o] = disk[poller.job_id]]
       ELSE /\ poller' = [poller EXCEPT !.pc = "replied",
                                        !.response = NotFound]
            /\ UNCHANGED heap
    /\ UNCHANGED <<now, up, jobs, disk, files, submit, runner, sim, child,
                   loader, admin, issued, counts, diskok,
                   sweeper>>

\* with jobs_lock: jobs[job_id] = job
PollCache ==
    /\ poller.pc = "cache"
    /\ jobs' = [jobs EXCEPT ![poller.job_id] = poller.job]
    /\ poller' = [poller EXCEPT !.pc = "respond", !.recovered = TRUE]
    /\ heap' = Gc(heap, jobs', loader, poller')
    /\ UNCHANGED <<now, up, disk, files, submit, runner, sim, child, loader,
                   admin, issued, counts, diskok, sweeper>>

\* The response is built outside jobs_lock from the live record, one read
\* after the other; the runner, the progress thread and the loader may write
\* to the record between two reads.
\* response = {'jobId': job_id, 'status': job['status'], ...
PollReadStatus ==
    /\ poller.pc = "respond"
    /\ poller' = [poller EXCEPT !.pc = "progress",
                                !.response.status = heap[poller.job].status]
    /\ UNCHANGED <<now, up, jobs, heap, disk, files, submit, runner, sim,
                   child, loader, admin, issued, counts, diskok,
                   sweeper>>

\* ... 'progress': job['progress']}
PollReadProgress ==
    /\ poller.pc = "progress"
    /\ poller' = [poller EXCEPT !.pc = "message",
                                !.response.progress = heap[poller.job].progress]
    /\ UNCHANGED <<now, up, jobs, heap, disk, files, submit, runner, sim,
                   child, loader, admin, issued, counts, diskok,
                   sweeper>>

\* if 'message' in job: response['message'] = job['message']
PollReadMessage ==
    /\ poller.pc = "message"
    /\ poller' = [poller EXCEPT !.pc = "result",
                                !.response.message = heap[poller.job].message]
    /\ UNCHANGED <<now, up, jobs, heap, disk, files, submit, runner, sim,
                   child, loader, admin, issued, counts, diskok,
                   sweeper>>

\* if job['status'] == 'completed': tracks, bpm, duration;
\* elif job['status'] == 'failed': error; return jsonify(response), 200.
\* (jobs[job_id].update(job_update) is one dict.update call, so the three
\* result fields are read from one state.)
PollReadResult ==
    /\ poller.pc = "result"
    /\ LET now_rec == StatusResponse(heap[poller.job]) IN
         poller' = [poller EXCEPT !.pc = "replied", !.job = NoObj,
                        !.response = [@ EXCEPT !.code = 200,
                                               !.tracks = now_rec.tracks,
                                               !.bpm = now_rec.bpm,
                                               !.duration = now_rec.duration,
                                               !.error = now_rec.error]]
    /\ heap' = Gc(heap, jobs, loader, poller')
    /\ UNCHANGED <<now, up, jobs, disk, files, submit, runner, sim, child,
                   loader, admin, issued, counts, diskok,
                   sweeper>>

\* response = {...}; return jsonify(response), 200
PollRespond ==
    PollReadStatus \/ PollReadProgress \/ PollReadMessage \/ PollReadResult

\* The response is on its way to the client: the worker is free again.
PollReturn ==
    /\ poller.pc = "replied"
    /\ poller' = IdlePoller
    /\ UNCHANGED <<now, up, jobs, heap, disk, files, submit, runner, sim,
                   child, loader, admin, issued, counts, diskok,
                   sweeper>>

\* ------------------------------------------- clear_cache, clear_disk_jobs
\* clear_cache: with jobs_lock: jobs.clear()
ClearCacheStart ==
    /\ NoRequest
    /\ counts < MaxEvents
    /\ counts' = counts + 1
    /\ jobs' = EmptyIndex
    /\ admin' = [pc |-> "cache_files"]
    /\ heap' = Gc(heap, jobs', loader, poller)
    /\ UNCHANGED <<now, up, disk, files, submit, runner, sim, child, loader,
                   poller, issued, diskok, sweeper>>

\* clear_cache: every item of UPLOAD_FOLDER, OUTPUT_FOLDER and TEMP_FOLDER is
\* removed; JOBS_FOLDER is not touched.
ClearCacheFiles ==
    /\ admin.pc = "cache_files"
    /\ files' = [j \in JobIds |-> NoFiles]
    /\ admin' = IdleAdmin
    /\ UNCHANGED <<now, up, jobs, heap, disk, submit, runner, sim, child,
                   loader, poller, issued, counts, diskok,
                   sweeper>>

\* clear_disk_jobs: with jobs_lock: jobs.clear()
ClearDiskJobsStart ==
    /\ NoRequest
    /\ counts < MaxEvents
    /\ counts' = counts + 1
    /\ jobs' = EmptyIndex
    /\ admin' = [pc |-> "disk_files"]
    /\ heap' = Gc(heap, jobs', loader, poller)
    /\ UNCHANGED <<now, up, disk, files, submit, runner, sim, child, loader,
                   poller, issued, diskok, sweeper>>

\* clear_disk_jobs: every *.json of JOBS_FOLDER is unlinked
ClearDiskJobsFiles ==
    /\ admin.pc = "disk_files"
    /\ disk' = [j \in JobIds |-> NoRec]
    /\ admin' = IdleAdmin
    /\ UNCHANGED <<now, up, jobs, heap, files, submit, runner, sim, child,
                   loader, poller, issued, counts, diskok,
                   sweeper>>

\* ------------------------------------------------------ cleanup_old_files
RETENTION_MINUTES == 24 * 60

\* A clock advance of more than the retention horizon.
TickLong ==
    /\ counts < MaxEvents
    /\ now' = now + LongTickMinutes
    /\ counts' = counts + 1
    /\ UNCHANGED <<up, jobs, heap, disk, files, submit, runner, sim, child,
                   loader, poller, admin, issued, diskok, sweeper>>

\* The timer fires: cutoff_time = time.time() - 24h; with jobs_lock:
\* jobs_to_remove = the ids of the index whose created_at < cutoff_time.
SweepScan ==
    /\ up = "serving"
    /\ sweeper.pc = "idle"
    /\ LET cutoff == now - RETENTION_MINUTES
           old == {j \in JobIds :
                     InIndex(j) /\ IndexRec(j).created_at < cutoff}
       IN sweeper' = [pc |-> IF old = {} THEN "end" ELSE "files",
                      cutoff_time |-> cutoff, jobs_to_remove |-> old,
                      job_id |-> "None"]
    /\ UNCHANGED <<now, up, jobs, heap, disk, files, submit, runner, sim,
                   child, loader, poller, admin, issued, counts, diskok>>

\* for job_id in jobs_to_remove: every UPLOAD_FOLDER and OUTPUT_FOLDER entry
\* whose name starts with the job id is removed.
SweepFiles ==
    /\ sweeper.pc = "files"
    /\ \E j \in sweeper.jobs_to_remove :
         /\ files' = [files EXCEPT ![j] = NoFiles]
         /\ sweeper' = [sweeper EXCEPT !.pc = "pop", !.job_id = j]
    /\ UNCHANGED <<now, up, jobs, heap, disk, submit, runner, sim, child,
                   loader, poller, admin, issued, counts, diskok>>

\* with jobs_lock: jobs.pop(job_id, None)
SweepPop ==
    /\ sweeper.pc = "pop"
    /\ jobs' = [jobs EXCEPT ![sweeper.job_id] = NoObj]
    /\ heap' = Gc(heap, jobs', loader, poller)
    /\ LET rest == sweeper.jobs_to_remove \ {sweeper.job_id}
       IN sweeper' = [sweeper EXCEPT
                        !.pc = IF rest = {} THEN "end" ELSE "files",
                        !.jobs_to_remove = rest]
    /\ UNCHANGED <<now, up, disk, files, submit, runner, sim, child, loader,
                   poller, admin, issued, counts, diskok>>

\* cleanup_old_files returns.
SweepEnd ==
    /\ sweeper.pc = "end"
    /\ sweeper' = IdleSweeper
    /\ UNCHANGED <<now, up, jobs, heap, disk, files, submit, runner, sim,
                   child, loader, poller, admin, issued, counts, diskok>>

SweepStep == SweepFiles \/ SweepPop \/ SweepEnd

\* ------------------------------------------------------ crash and restart
\* The process dies: the index, every thread and every handler are gone; the
\* files stay.  The new process imports the module, which runs
\* load_all_jobs_from_disk before anything is served (once, or twice under
\* Gunicorn: at import and in create_app).
Crash ==
    /\ counts < MaxEvents
    /\ counts' = counts + 1
    /\ up' = "boot"
    /\ jobs' = EmptyIndex
    /\ heap' = [o \in Objs |-> NoRec]
    /\ submit' = IdleSubmit
    /\ runner' = [j \in JobIds |->
                    IF runner[j].pc = "idle" THEN IdleRunner
                    ELSE [IdleRunner EXCEPT !.pc = "lost"]]
    /\ sim' = [j \in JobIds |-> IdleSim]
    /\ child' = [j \in JobIds |-> "none"]
    /\ poller' = IdlePoller
    /\ admin' = IdleAdmin
    /\ \E n \in {1, 2} :
         loader' = [IdleLoader EXCEPT !.pc = "glob", !.who = "startup",
                                      !.passes = n, !.quiet = TRUE]
    /\ sweeper' = IdleSweeper
    /\ UNCHANGED <<now, disk, files, issued, diskok>>

\* Some thread is at a call of save_job_to_disk(j, ...): process_audio's
\* save, update_progress or the final save in the runner (which write only
\* for an id in the index), the progress thread's update, the loader's save.
SavePending(j) ==
    \/ submit.pc = "save" /\ submit.job_id = j
    \/ loader.pc = "save" /\ loader.job_id = j
    \/ /\ InIndex(j)
       /\ \/ runner[j].pc \in {"init", "analyze", "duration", "starting",
                               "organize", "bpm_start", "bpm", "finalize",
                               "except"}
          \/ sim[j].pc = "update"

\* The process dies inside save_job_to_disk(j, ...), after open(job_file, 'w')
\* has emptied the file and before json.dump has written the whole record.
\* (Dying before the open or after the dump is Crash before or after the
\* saving step.)
CrashInSave(j) ==
    /\ diskok
    /\ SavePending(j)
    /\ counts < MaxEvents
    /\ counts' = counts + 1
    /\ disk' = [disk EXCEPT ![j] = Torn]
    /\ up' = "boot"
    /\ jobs' = EmptyIndex
    /\ heap' = [o \in Objs |-> NoRec]
    /\ submit' = IdleSubmit
    /\ runner' = [k \in JobIds |->
                    IF runner[k].pc = "idle" THEN IdleRunner
                    ELSE [IdleRunner EXCEPT !.pc = "lost"]]
    /\ sim' = [k \in JobIds |-> IdleSim]
    /\ child' = [k \in JobIds |-> "none"]
    /\ poller' = IdlePoller
    /\ admin' = IdleAdmin
    /\ \E n \in {1, 2} :
         loader' = [IdleLoader EXCEPT !.pc = "glob", !.who = "startup",
                                      !.passes = n, !.quiet = TRUE]
    /\ sweeper' = IdleSweeper
    /\ UNCHANGED <<now, files, issued, diskok>>

\* ------------------------------------------------------ specification
Next ==
    \/ Tick
    \/ \E j \in JobIds : SubmitCreate(j)
    \/ SubmitSave
    \/ SubmitStart
    \/ \E j \in JobIds :
         \/ RunInit(j) \/ RunMarkProcessing(j) \/ RunMkdir(j) \/ RunAnalyze(j)
         \/ RunDuration(j) \/ RunStarting(j) \/ RunPopen(j) \/ RunPopenFails(j)
         \/ RunCommunicate(j) \/ RunTimeout(j) \/ RunOrganize(j)
         \/ RunResolve(j) \/ RunBpmStart(j) \/ RunDetectBpm(j)
         \/ RunFinalize(j) \/ RunExcept(j)
         \/ ChildExit(j) \/ SimPoll(j) \/ SimUpdate(j)
         \/ PollStart(j)
    \/ ReloadStart \/ LoadGlob \/ LoadFile \/ LoadInsert \/ LoadCheck
    \/ LoadSetStatus \/ LoadSetError \/ LoadSetMessage \/ LoadSetCompletedAt
    \/ LoadSave \/ LoadFinish \/ LoadReturn
    \/ PollDisk \/ PollCache \/ PollRespond \/ PollReturn
    \/ ClearCacheStart \/ ClearCacheFiles
    \/ ClearDiskJobsStart \/ ClearDiskJobsFiles
    \/ Crash

Spec == Init /\ [][Next]_vars

\* ---------------------------------------------------------------------
\* One job with no request but its submission: the runner thread, the
\* progress thread, the child process and the clock.
RunnerCore(j) ==
    \/ RunInit(j) \/ RunMarkProcessing(j) \/ RunMkdir(j) \/ RunAnalyze(j)
    \/ RunStarting(j) \/ RunPopenFails(j)
    \/ RunCommunicate(j) \/ RunTimeout(j) \/ RunOrganize(j)
    \/ RunResolve(j) \/ RunBpmStart(j) \/ RunDetectBpm(j)
    \/ RunFinalize(j) \/ RunExcept(j)

RunnerRest(j) == RunPopen(j) \/ RunnerCore(j)

RunnerStep(j) == RunDuration(j) \/ RunnerRest(j)

SimStep(j) == SimPoll(j) \/ SimUpdate(j)

LoaderStep ==
    \/ LoadGlob \/ LoadFile \/ LoadInsert \/ LoadCheck
    \/ LoadSetStatus \/ LoadSetError \/ LoadSetMessage \/ LoadSetCompletedAt
    \/ LoadSave \/ LoadFinish \/ LoadReturn

\* What a request in progress does next.
HandlerStep ==
    \/ SubmitSave \/ SubmitStart \/ LoaderStep
    \/ PollDisk \/ PollCache \/ PollRespond \/ PollReturn
    \/ ClearCacheFiles \/ ClearDiskJobsFiles

NextJob ==
    \/ Tick
    \/ \E j \in JobIds : SubmitCreate(j)
    \/ SubmitSave
    \/ SubmitStart
    \/ \E j \in JobIds : RunnerStep(j) \/ ChildExit(j) \/ SimStep(j)

SpecJob == Init /\ [][NextJob]_vars

\* The same, every thread of the job that can take a step eventually taking
\* one (the child ends when it does, or is killed).
FairJob ==
    /\ Init
    /\ [][NextJob]_vars
    /\ \A j \in JobIds : WF_vars(RunnerStep(j)) /\ WF_vars(SimStep(j))

\* The same with every return of process_audio.
NextSubmit ==
    \/ NextJob
    \/ SubmitReject
    \/ \E j \in JobIds : SubmitOversize(j)
    \/ SubmitUnlink
    \/ SubmitReturn

SpecSubmit == Init /\ [][NextSubmit]_vars

\* A job's threads on a disk whose writes fail at times (open or json.dump
\* raises in save_job_to_disk).
DiskBreaks ==
    /\ diskok
    /\ diskok' = FALSE
    /\ UNCHANGED <<now, up, jobs, heap, disk, files, submit, runner, sim,
                   child, loader, poller, admin, issued, counts, sweeper>>

DiskRepairs ==
    /\ ~diskok
    /\ diskok' = TRUE
    /\ UNCHANGED <<now, up, jobs, heap, disk, files, submit, runner, sim,
                   child, loader, poller, admin, issued, counts, sweeper>>

NextDiskFail == NextJob \/ DiskBreaks \/ DiskRepairs

SpecDiskFail == Init /\ [][NextDiskFail]_vars

\* A job's threads with the retention sweep and long clock advances.
NextSweep ==
    \/ NextJob
    \/ TickLong
    \/ SweepScan \/ SweepStep

SpecSweep == Init /\ [][NextSweep]_vars

\* The job's threads with the recovery passes: reload requests and crashes
\* followed by a restart.
NextReload == NextJob \/ ReloadStart \/ LoaderStep \/ Crash

SpecReload == Init /\ [][NextReload]_vars

\* ---------------------------------------------------------------------
\* The job, restarts (between steps or inside a write of a job file), the
\* loader, status requests and cache clears.
NextTorn ==
    \/ NextJob
    \/ LoaderStep
    \/ Crash
    \/ \E j \in JobIds : CrashInSave(j) \/ PollStart(j)
    \/ PollDisk \/ PollCache \/ PollRespond \/ PollReturn
    \/ ClearCacheStart \/ ClearCacheFiles

SpecTorn == Init /\ [][NextTorn]_vars

\* ---------------------------------------------------------------------
\* The job and status requests for it, nothing else: an id that is in the
\* store is in the index too, so the handler never refills the index.
NextStatus ==
    \/ NextJob
    \/ \E j \in JobIds : PollStart(j)
    \/ PollDisk \/ PollRespond \/ PollReturn

SpecStatus == Init /\ [][NextStatus]_vars

\* ---------------------------------------------------------------------
\* One job whose tool may leave any of the output layouts.
NextOutput ==
    \/ Tick
    \/ \E j \in JobIds : SubmitCreate(j)
    \/ SubmitSave
    \/ SubmitStart
    \/ \E j \in JobIds : RunnerStep(j) \/ ChildExitAny(j) \/ SimStep(j)

SpecOutput == Init /\ [][NextOutput]_vars

\* ---------------------------------------------------------------------
\* One job for any upload: the duration is whatever get_audio_duration
\* returns for it.
NextAnalysis ==
    \/ Tick
    \/ \E j \in JobIds : SubmitCreate(j)
    \/ SubmitSave
    \/ SubmitStart
    \/ \E j \in JobIds :
         RunDurationAny(j) \/ RunnerRest(j) \/ ChildExit(j) \/ SimStep(j)

SpecAnalysis == Init /\ [][NextAnalysis]_vars

\* ---------------------------------------------------------------------
\* One job on an upload of any length, the clock advancing by the minute as
\* well.
NextProgress ==
    \/ Tick \/ TickShort
    \/ \E j \in JobIds : SubmitCreate(j)
    \/ SubmitSave
    \/ SubmitStart
    \/ \E j \in JobIds :
         RunDurationMeasured(j) \/ RunnerRest(j) \/ ChildExit(j) \/ SimStep(j)

SpecProgress == Init /\ [][NextProgress]_vars

\* ---------------------------------------------------------------------
\* One job on any host.
NextLaunch ==
    \/ Tick
    \/ \E j \in JobIds : SubmitCreate(j)
    \/ SubmitSave
    \/ SubmitStart
    \/ \E j \in JobIds :
         \/ RunDuration(j) \/ RunPopenAny(j) \/ RunnerCore(j)
         \/ ChildExit(j) \/ SimStep(j)

SpecLaunch == Init /\ [][NextLaunch]_vars

\* No crash, and every thread that can take a step eventually takes one; the
\* tool ends on its own or is killed.  Requests and clock readings are up to
\* the environment.
NextNoCrash ==
    \/ NextJob
    \/ ReloadStart \/ LoaderStep
    \/ \E j \in JobIds : PollStart(j)
    \/ PollDisk \/ PollCache \/ PollRespond \/ PollReturn
    \/ ClearCacheStart \/ ClearCacheFiles
    \/ ClearDiskJobsStart \/ ClearDiskJobsFiles

FairSpec ==
    /\ Init
    /\ [][NextNoCrash]_vars
    /\ WF_vars(HandlerStep)
    /\ \A j \in JobIds :
         WF_vars(RunnerStep(j)) /\ WF_vars(SimStep(j)) /\ WF_vars(ChildExit(j))

\* ---------------------------------------------------------------------
\* Startup recovery on a store left by an earlier process: the module import
\* finds any record a runner can have written last, at any age.
StoredRecords ==
    {NewJob(0),
     WithProgress(NewJob(0), 5, "Initializing..."),
     [WithProgress(NewJob(0), 10, "Analyzing audio file...")
        EXCEPT !.status = "processing"],
     [WithProgress(NewJob(0), 85, "Finalizing separation...")
        EXCEPT !.status = "processing"],
     Completed(NewJob(0),
               [IdleRunner EXCEPT
                  !.tracks = TrackUrls(DefaultBackendUrl, "j1", Stems),
                  !.bpm = 120, !.duration = 180], 3),
     Failed(WithProgress(NewJob(0), 20, "Starting audio separation..."),
            ERR_EXIT, 2)}

StartupClock == {5, 30, 31, 45}

InitRecovery ==
    /\ now \in StartupClock
    /\ up = "boot"
    /\ jobs = EmptyIndex
    /\ heap = [o \in Objs |-> NoRec]
    /\ disk \in [JobIds -> StoredRecords]
    /\ files = [j \in JobIds |-> NoFiles]
    /\ submit = IdleSubmit
    /\ runner = [j \in JobIds |-> IdleRunner]
    /\ sim = [j \in JobIds |-> IdleSim]
    /\ child = [j \in JobIds |-> "none"]
    /\ \E n \in {1, 2} :
         loader = [IdleLoader EXCEPT !.pc = "glob", !.who = "startup",
                                     !.passes = n, !.quiet = TRUE]
    /\ poller = IdlePoller
    /\ admin = IdleAdmin
    /\ issued = JobIds
    /\ counts = 0
    /\ diskok = TRUE
    /\ sweeper = IdleSweeper

SpecRecovery == InitRecovery /\ [][LoaderStep]_vars

\* The same while the clock advances.
SpecStartup == InitRecovery /\ [][LoaderStep \/ Tick]_vars


\* =====================================================================
\* Properties
\* =====================================================================
Terminal == {"completed", "failed"}

\* The status a status request served now would report for j: the index
\* record, else the stored record, else 404.
PollStatus(j) ==
    IF InIndex(j) THEN IndexRec(j).status
    ELSE IF OnDisk(j) THEN disk[j].status
    ELSE "404"

StatusStepOk(a, b) ==
    \/ a = b
    \/ a = "pending" /\ b = "processing"
    \/ a = "processing" /\ b \in Terminal

\* C1: the status of a job's record, in the index and in the store, only ever
\* changes pending -> processing, processing -> completed or
\* processing -> failed.
C1_StatusMonotone ==
    [][\A j \in JobIds :
         /\ (InIndex(j) /\ InIndex(j)')
              => StatusStepOk(IndexRec(j).status, IndexRec(j)'.status)
         /\ (OnDisk(j) /\ OnDisk(j)')
              => StatusStepOk(disk[j].status, disk'[j].status)]_vars

\* C2: when the runner thread of a job has ended, the job's record (in the
\* index, in the store) has status completed or failed, and a runner that
\* took the failure path has persisted status failed with an error and
\* completed_at.
C2_RunnerEndsTerminal ==
    \A j \in JobIds :
      RunnerEnded(j) =>
        /\ InIndex(j) => IndexRec(j).status \in Terminal
        /\ OnDisk(j) => disk[j].status \in Terminal
        /\ (runner[j].err # "" /\ OnDisk(j)) =>
             /\ disk[j].status = "failed"
             /\ disk[j].error # None
             /\ disk[j].completed_at # None

\* C3: with no crash and fair scheduling, every accepted job is eventually
\* reported with status completed or failed by a status request.
C3_EventuallyTerminal ==
    \A j \in JobIds :
      (runner[j].pc # "idle") ~> (PollStatus(j) \in Terminal)

\* C4: until a terminal status is reached, the progress held in a job's
\* record never decreases.
C4_ProgressMonotone ==
    [][\A j \in JobIds :
         (InIndex(j) /\ InIndex(j)' /\ IndexRec(j).status \notin Terminal)
           => IndexRec(j)'.progress >= IndexRec(j).progress]_vars

\* C5: once a job's record has status completed or failed, no step changes
\* any field of it, in the index or in the store.
C5_TerminalFrozen ==
    [][\A j \in JobIds :
         /\ (InIndex(j) /\ InIndex(j)' /\ IndexRec(j).status \in Terminal)
              => IndexRec(j)' = IndexRec(j)
         /\ (OnDisk(j) /\ OnDisk(j)' /\ disk[j].status \in Terminal)
              => disk'[j] = disk[j]]_vars

\* C6: when load_all_jobs_from_disk has finished and no runner thread is
\* running, no record of the index or of the store has status processing; and
\* when no runner thread was running during the pass, every record the pass
\* found processing is failed, with an error and completed_at, in the index
\* and in the store.
RecoveredRec(rec) ==
    /\ rec.status = "failed"
    /\ rec.error # None
    /\ rec.completed_at # None

C6_NoProcessingAfterLoad ==
    loader.pc = "done" =>
      \A j \in JobIds :
        /\ (\A k \in JobIds : ~RunnerActive(k)) =>
             /\ IndexRec(j).status # "processing"
             /\ disk[j].status # "processing"
        /\ (loader.quiet /\ j \in loader.processing) =>
             RecoveredRec(IndexRec(j)) /\ RecoveredRec(disk[j])

C6_Witness ==
    /\ loader.pc = "done" /\ loader.quiet /\ loader.who = "reload"
    /\ \E j \in JobIds :
         /\ j \in loader.processing
         /\ RecoveredRec(IndexRec(j)) /\ RecoveredRec(disk[j])

\* C7: recovery of a processing record makes it failed with the 'stuck' error
\* when now - created_at is more than 30 minutes, and with the plain
\* 'interrupted by service restart' error otherwise.
C7_RecoveryErrorByAge ==
    loader.pc = "done" =>
      \A j \in JobIds :
        j \in loader.processing =>
          /\ disk[j].status = "failed"
          /\ disk[j].error =
               IF now - disk[j].created_at > 30
               THEN Some("Processing interrupted by service restart (job was stuck)")
               ELSE Some("Processing interrupted by service restart")
          /\ IndexRec(j) = disk[j]

C7_Witness ==
    /\ loader.pc = "done"
    /\ \E j \in JobIds :
         /\ j \in loader.processing
         /\ now - disk[j].created_at = 45
         /\ disk[j].error = Some(ERR_STUCK)

\* C8: after a crash, a restart and the startup recovery, the record of every
\* job whose submission had been accepted is completed or failed.
C8_TerminalAfterRestart ==
    \A j \in JobIds :
      (runner[j].pc = "lost" /\ up = "serving") =>
        /\ InIndex(j) => IndexRec(j).status \in Terminal
        /\ OnDisk(j) => disk[j].status \in Terminal

\* C9: every record with status failed carries an error: in the store at any
\* time, in the index whenever a request can read it.
C9_FailedHasError ==
    \A j \in JobIds :
      /\ (OnDisk(j) /\ disk[j].status = "failed") => disk[j].error # None
      /\ (NoRequest /\ InIndex(j) /\ IndexRec(j).status = "failed")
           => IndexRec(j).error # None

\* C10: completed_at is written once: a record that carries completed_at
\* keeps that value, in the index and in the store.
C10_CompletedAtOnce ==
    [][\A j \in JobIds :
         /\ (InIndex(j) /\ InIndex(j)' /\ IndexRec(j).completed_at # None)
              => IndexRec(j)'.completed_at = IndexRec(j).completed_at
         /\ (OnDisk(j) /\ OnDisk(j)' /\ disk[j].completed_at # None)
              => disk'[j].completed_at = disk[j].completed_at]_vars

\* C11: every record with status completed, in the index and in the store,
\* has a tracks mapping with at least one entry.
C11_CompletedHasTracks ==
    \A j \in JobIds :
      /\ IndexRec(j).status = "completed" =>
           IndexRec(j).tracks # None /\ IndexRec(j).tracks # Some(NoTracks)
      /\ disk[j].status = "completed" =>
           disk[j].tracks # None /\ disk[j].tracks # Some(NoTracks)

\* C12: a status request is answered 404 exactly when its id is in neither
\* the index nor the store; an id found only in the store is answered 200
\* and is in the index again.
C12_NotFoundIffAbsent ==
    poller.pc = "replied" =>
      /\ poller.response.code \in {200, 404}
      /\ poller.response.code = 404 <=>
           (~InIndex(poller.job_id) /\ ~OnDisk(poller.job_id))
      /\ poller.response.code = 200 => InIndex(poller.job_id)

C12_Witness ==
    /\ poller.pc = "replied"
    /\ poller.recovered
    /\ poller.response.code = 200
    /\ OnDisk(poller.job_id)

\* C13: a status request that is the first thing to happen after the submit
\* response of a job (no other request, no crash, no clock advance in
\* between) is answered 200 with status pending and progress 0.
C13_PendingRightAfterSubmit ==
    (/\ poller.pc = "replied"
     /\ poller.job_id \in issued
     /\ counts = 1) =>
      /\ poller.response.code = 200
      /\ poller.response.status = "pending"
      /\ poller.response.progress = 0

\* Uploads the service must refuse before it creates anything: no file part,
\* an empty filename, or a filename whose extension is not an allowed one.
RefusedFilenames ==
    {<<"a", ".", "t", "x", "t">>, <<"a", ".", "T", "X", "T">>,
     <<"m", "p", "3">>, <<"a", ".">>,
     <<"a", ".", "m", "p", "3", ".", "t", "x", "t">>}

RefusedUpload(req) ==
    \/ ~req.has_file
    \/ req.filename = <<>>
    \/ req.filename \in RefusedFilenames

\* C14: a submission with no file part, an empty filename or a disallowed
\* extension is answered 400 in one step that changes neither the index, the
\* store, the upload folder, the set of job ids nor any thread.
C14_RejectedLeavesNoTrace ==
    [][(submit.pc = "idle" /\ submit'.pc # "idle"
          /\ RefusedUpload(submit'.request)) =>
         /\ submit'.pc = "replied"
         /\ submit'.response.code = 400
         /\ UNCHANGED <<jobs, heap, disk, files, issued, runner, sim, child>>]_vars

\* C15: every step a submission with a file larger than MAX_FILE_SIZE takes
\* leaves the index and the store as they are and starts no thread, and the
\* step that answers it answers 400 and leaves no upload of it behind.
C15_OversizeRejected ==
    [][(submit' # submit /\ submit'.request.has_file
          /\ submit'.request.size > MAX_FILE_SIZE) =>
         /\ submit'.pc \in {"unlink", "replied"}
         /\ UNCHANGED <<jobs, heap, disk, runner, sim, child>>
         /\ submit'.pc = "replied" =>
              /\ submit'.response.code = 400
              /\ \A j \in JobIds :
                   files'[j].upload =>
                     (files[j].upload /\ j # submit'.job_id)]_vars

\* C16: when the pass of a reload request has finished and no runner thread
\* is running, the index holds exactly the ids of the store, each with the
\* record the store holds.
C16_ReloadEqualsStore ==
    (/\ loader.pc = "done"
     /\ loader.who = "reload"
     /\ \A k \in JobIds : ~RunnerActive(k)) =>
      \A j \in JobIds :
        /\ InIndex(j) <=> OnDisk(j)
        /\ IndexRec(j) = disk[j]

C16_Witness ==
    /\ loader.pc = "done"
    /\ loader.who = "reload"
    /\ \A k \in JobIds : ~RunnerActive(k)
    /\ \E j \in JobIds :
         /\ InIndex(j)
         /\ IndexRec(j) = disk[j]
         /\ j \in loader.processing
         /\ IndexRec(j).status = "failed"

\* A record of j, in the index or in the store, was created before time c.
OlderThan(j, c) ==
    \/ InIndex(j) /\ IndexRec(j).created_at < c
    \/ OnDisk(j) /\ disk[j].created_at < c

\* C17: when a retention sweep returns, no job created more than 24 hours
\* before it began has a record in the index or in the store or any upload
\* or output left, so that its status is 404; and no step of the sweep
\* touches a job that is younger.
C17_SweepPurgesOld ==
    [][/\ (sweeper.pc = "end" /\ sweeper'.pc = "idle") =>
            \A j \in JobIds :
              OlderThan(j, sweeper.cutoff_time) =>
                /\ ~InIndex(j) /\ ~OnDisk(j)
                /\ files[j] = NoFiles
                /\ PollStatus(j) = "404"
       /\ sweeper' # sweeper =>
            \A j \in JobIds :
              ~OlderThan(j, now - RETENTION_MINUTES) =>
                /\ jobs'[j] = jobs[j]
                /\ disk'[j] = disk[j]
                /\ files'[j] = files[j]]_vars

\* C18: when the cache-clear request returns, no job has a record in the
\* index or in the store, and the status of every job id is 404.
C18_CacheClearDeletesRecords ==
    [][(admin.pc = "cache_files" /\ admin'.pc = "idle") =>
         \A j \in JobIds :
           /\ jobs'[j] = NoObj
           /\ disk'[j] = NoRec
           /\ PollStatus(j)' = "404"]_vars

\* C19: between the steps of the threads (the index lock is free), with disk
\* writes succeeding and once the submission has returned, the store holds
\* for every id of the index the status and the progress the index holds.
C19_StoreMirrorsIndex ==
    (diskok /\ submit.pc = "idle") =>
      \A j \in JobIds :
        InIndex(j) =>
          /\ disk[j].status = IndexRec(j).status
          /\ disk[j].progress = IndexRec(j).progress

\* What the index holds for a job whose runner is at pc, before the child
\* process is started (afterwards the progress thread writes as well).
ExpectedStatus(pc) == IF pc \in {"init", "mark"} THEN "pending" ELSE "processing"
ExpectedProgress(pc) ==
    CASE pc = "init" -> 0
      [] pc \in {"mark", "mkdir", "analyze"} -> 5
      [] pc = "duration" -> 10
      [] pc = "starting" -> 15
      [] pc = "popen" -> 20

\* C20: with disk writes failing at any time, the index holds after every
\* runner step the value the step wrote, the runner fails only for the
\* reasons it fails for with a working disk (the tool cannot be started,
\* exits non-zero, times out or leaves no output), and it ends with the
\* index record completed, with its tracks, or failed with that reason.
C20_DiskFailureSwallowed ==
    \A j \in JobIds :
      /\ runner[j].pc \in {"init", "mark", "mkdir", "analyze", "duration",
                            "starting", "popen"} =>
           /\ IndexRec(j).status = ExpectedStatus(runner[j].pc)
           /\ IndexRec(j).progress = ExpectedProgress(runner[j].pc)
      /\ runner[j].pc # "died"
      /\ runner[j].err \in {"", ERR_INIT, ERR_EXIT, ERR_TIMEOUT, ERR_NOTFOUND}
      /\ runner[j].err = ERR_EXIT => child[j] = "exit1"
      /\ runner[j].err = ERR_TIMEOUT => child[j] = "killed"
      /\ runner[j].err = ERR_NOTFOUND => ResolveDir(files[j].tree) = {}
      /\ runner[j].pc = "done" =>
           IF runner[j].err = ""
           THEN /\ IndexRec(j).status = "completed"
                /\ IndexRec(j).tracks = Some(runner[j].tracks)
                /\ child[j] = "exit0"
           ELSE /\ IndexRec(j).status = "failed"
                /\ IndexRec(j).error = Some(runner[j].err)

C20_Witness ==
    \E j \in JobIds :
      /\ runner[j].pc = "done"
      /\ IndexRec(j).status = "completed"
      /\ disk[j].status = "pending"
      /\ disk[j].progress = 0

\* C21: a death of the process at any point of save_job_to_disk(id, record)
\* leaves a file from which load_job_from_disk(id) gets a whole record, the
\* previous one or the new one (never nothing where a record was, never an
\* unreadable file), and leaves every other id's file as it was.
C21_SaveAtomicUnderCrash ==
    [][(up' = "boot" /\ counts' # counts) =>
         \A j \in JobIds :
           /\ disk'[j] # Torn
           /\ OnDisk(j) => Readable(j)'
           /\ ~SavePending(j) => disk'[j] = disk[j]]_vars

\* C22: a status response is the image of the job's record in one state: it
\* has its tracks, bpm and duration exactly when its status is completed and
\* its error exactly when its status is failed, also when the runner ends the
\* job while the request is served.
C22_ResponseIsSnapshot ==
    (poller.pc = "replied" /\ poller.response.code = 200) =>
      /\ poller.response.tracks # None <=> poller.response.status = "completed"
      /\ poller.response.bpm # None <=> poller.response.status = "completed"
      /\ poller.response.duration # None
           <=> poller.response.status = "completed"
      /\ poller.response.error # None <=> poller.response.status = "failed"

\* The subdirectories of the alternative model directories.
AltSubdirs(tree) ==
    UNION {Subdirs(tree, ModelDirs[i]) : i \in 2..Len(ModelDirs)}
AfterResolve == {"bpm_start", "bpm", "finalize", "done"}

\* C23: when the child has exited 0 and the job's output directory has no
\* htdemucs_6s directory but an alternative model directory with a single
\* subdirectory (the only subdirectory under the alternative directories),
\* the runner does not fail, resolves that subdirectory as separated_dir and
\* ends with the record completed.
C23_AlternativeResolved ==
    \A j \in JobIds :
      ( /\ child[j] = "exit0"
        /\ <<"htdemucs_6s">> \notin files[j].tree
        /\ Cardinality(AltSubdirs(files[j].tree)) = 1 ) =>
          /\ runner[j].pc # "except" /\ runner[j].err = ""
          /\ runner[j].pc \in AfterResolve =>
                runner[j].separated_dir \in AltSubdirs(files[j].tree)
          /\ RunnerEnded(j) =>
                /\ IndexRec(j).status = "completed"
                /\ disk[j].status = "completed"

\* The job is completed from the subdirectory of the last alternative
\* directory, found after an alternative directory with no subdirectory.
C23_Witness ==
    \E j \in JobIds :
      /\ child[j] = "exit0"
      /\ <<"htdemucs_6s">> \notin files[j].tree
      /\ <<"htdemucs">> \in files[j].tree
      /\ runner[j].separated_dir = <<"demucs", "a">>
      /\ runner[j].pc = "done"
      /\ IndexRec(j).status = "completed"
      /\ DOMAIN IndexRec(j).tracks[1] = {"vocals", "drums"}

\* C24: a record is completed only when the child has exited with code 0 (it
\* was not killed at the timeout) and separated_dir was resolved to a
\* directory that exists; when the child exits non-zero, is killed at the
\* timeout or leaves nothing that resolves, the record is never completed
\* and the runner ends with it failed.
C24_CompletedOnlyOnSuccess ==
    \A j \in JobIds :
      /\ (IndexRec(j).status = "completed" \/ disk[j].status = "completed") =>
           /\ child[j] = "exit0"
           /\ runner[j].separated_dir \in files[j].tree
           /\ runner[j].separated_dir \in ResolveDir(files[j].tree)
      /\ ( /\ RunnerEnded(j)
           /\ \/ child[j] \in {"exit1", "killed"}
              \/ child[j] = "exit0" /\ ResolveDir(files[j].tree) = {} ) =>
           /\ IndexRec(j).status = "failed"
           /\ disk[j].status = "failed"

\* The child exited 0 and left model directories from which nothing
\* resolves; the runner has ended and the record is failed.
C24_Witness ==
    \E j \in JobIds :
      /\ runner[j].pc = "done"
      /\ child[j] = "exit0"
      /\ files[j].tree # {}
      /\ ResolveDir(files[j].tree) = {}
      /\ IndexRec(j).status = "failed"
      /\ IndexRec(j).error = Some(ERR_NOTFOUND)

\* C25: get_audio_duration and detect_bpm return a value whatever methods
\* fail (the tempos are the ones the runner stores), the runner never fails
\* on their account, and a job whose duration was measured is given no more
\* time than a job whose measurement failed (which runs with the default),
\* so that a failed measurement does not time out a job that would complete.
C25_AnalysesNeverFailJob ==
    /\ Raised \notin AnyDurations
    /\ Raised \notin AnyBpm /\ AnyBpm = BpmResults
    /\ \A j \in JobIds :
         /\ runner[j].err # ERR_ANALYSIS
         /\ runner[j].pc = "communicate" =>
              TimeoutSeconds(runner[j].duration)
                <= TimeoutSeconds(get_audio_duration(Raised, Raised, Raised))

\* C27: whatever the source duration, the timeout of the wait on the child
\* process is at least 600 and at most 1800 seconds.
C27_TimeoutWithinBounds ==
    \A j \in JobIds :
      runner[j].pc = "communicate" =>
        /\ TimeoutSeconds(runner[j].duration) >= 600
        /\ TimeoutSeconds(runner[j].duration) <= 1800

\* C26: whenever the runner calls subprocess.Popen, it passes the
\* memory-limit hook exactly when the platform is not Darwin or NODE_ENV is
\* production (so not on Darwin with another NODE_ENV), and the command line
\* and the environment are the same with and without the hook.
C26_HookByPlatform ==
    \A j \in JobIds :
      runner[j].launch.called =>
        /\ runner[j].launch.preexec_fn <=>
             (runner[j].launch.platform # "Darwin"
                \/ runner[j].launch.node_env = "production")
        /\ (runner[j].launch.platform = "Darwin"
              /\ runner[j].launch.node_env # "production")
             => ~runner[j].launch.preexec_fn
        /\ runner[j].launch.cmd = DemucsCmd
        /\ runner[j].launch.env = ChildEnv

\* The child runs on Darwin in development, launched without the hook.
C26_Witness ==
    \E j \in JobIds :
      /\ child[j] = "running"
      /\ runner[j].launch.called
      /\ runner[j].launch.platform = "Darwin"
      /\ runner[j].launch.node_env = "development"
      /\ ~runner[j].launch.preexec_fn
      /\ runner[j].launch.cmd = DemucsCmd

\* C28: when the wait on the child times out, the child is killed before the
\* record becomes failed, the failed record's error is the timeout's (which
\* is not the error of a non-zero exit, and a non-zero exit does not get
\* it), and the record is never completed.
C28_TimeoutKillsThenFails ==
    /\ [](\A j \in JobIds :
            /\ runner[j].err = ERR_TIMEOUT =>
                 /\ IndexRec(j).status # "completed"
                 /\ disk[j].status # "completed"
                 /\ IndexRec(j).status = "failed" =>
                      /\ child[j] = "killed"
                      /\ IndexRec(j).error = Some(ERR_TIMEOUT)
                      /\ IndexRec(j).error # Some(ERR_EXIT)
            /\ child[j] = "killed" => runner[j].err = ERR_TIMEOUT
            /\ (child[j] = "exit1" /\ IndexRec(j).status = "failed") =>
                 IndexRec(j).error = Some(ERR_EXIT))
    /\ [][\A j \in JobIds :
            (runner'[j].err = ERR_TIMEOUT /\ IndexRec(j).status # "failed"
               /\ IndexRec(j)'.status = "failed") =>
              child[j] = "killed"]_vars

\* The runner has ended after a timeout: the child is killed and the record
\* is failed with the timeout's error, in the index and in the store.
C28_Witness ==
    \E j \in JobIds :
      /\ runner[j].pc = "done"
      /\ child[j] = "killed"
      /\ IndexRec(j).status = "failed"
      /\ IndexRec(j).error = Some(ERR_TIMEOUT)
      /\ disk[j].error = Some(ERR_TIMEOUT)

\* C29: when the nominal path is absent, separated_dir is taken only from a
\* model directory with exactly one subdirectory, so that what the job's
\* output directory holds determines the directory resolved.
C29_ResolutionUnique ==
    \A j \in JobIds :
      /\ (runner[j].pc = "resolve" /\ child[j] = "exit0") =>
           Cardinality(ResolveDir(files[j].tree)) <= 1
      /\ (runner[j].separated_dir # NoDir /\ Nominal \notin files[j].tree) =>
           Cardinality(Subdirs(files[j].tree, runner[j].separated_dir[1])) = 1

\* C30: the tracks of a completed record are the logical names, of the six,
\* whose file is in the resolved directory; a job whose directory resolves
\* is completed whatever stems are missing from it.
C30_TracksAreStemsPresent ==
    \A j \in JobIds :
      /\ IndexRec(j).status = "completed" =>
           /\ IndexRec(j).tracks # None
           /\ DOMAIN IndexRec(j).tracks[1] =
                {n \in Stems :
                   <<runner[j].separated_dir[1], runner[j].separated_dir[2],
                     StemFileOf(n)>> \in files[j].tree}
           /\ disk[j].tracks = IndexRec(j).tracks
      /\ (RunnerEnded(j) /\ child[j] = "exit0"
            /\ ResolveDir(files[j].tree) # {}) =>
           IndexRec(j).status = "completed"

\* A job is completed with the one stem found next to files that the
\* service does not look for.
C30_Witness ==
    \E j \in JobIds :
      /\ runner[j].pc = "done"
      /\ IndexRec(j).status = "completed"
      /\ <<"htdemucs_6s", InputName, "no_vocals.mp3">> \in files[j].tree
      /\ <<"htdemucs_6s", InputName, "drums.mp3">> \notin files[j].tree
      /\ DOMAIN IndexRec(j).tracks[1] = {"vocals"}

\* C31: get_audio_duration uses ffprobe and the 180-second default only when
\* both library methods failed: whenever the metadata read succeeded, the
\* duration the runner gets is the metadata value or, when that exceeds 1800
\* seconds and the decoded value is smaller, the decoded value.
C31_ProbeOnlyWhenLibraryFailed ==
    \A j \in JobIds :
      (runner[j].methods # NoMethods /\ runner[j].methods[1] # Raised) =>
        LET meta == runner[j].methods[1]
            samples == runner[j].methods[2]
        IN  runner[j].duration =
              IF meta > SANITY_SECONDS /\ samples # Raised /\ samples < meta
              THEN samples ELSE meta

\* C32: every track URL stored in a record (index and store) is the
\* configured base URL, with its leading http:// turned into https:// when
\* the base contains railway.app and starts with http:// and unchanged
\* otherwise, followed by /api/tracks/<job id>/<stem file name>.
C32_TrackUrlRule ==
    \A j \in JobIds :
      runner[j].launch.called =>
        LET base == runner[j].launch.backend_url
            public == \E i \in DOMAIN base : base[i] = "railway.app"
            shown == IF public /\ Head(base) = "http://"
                     THEN <<"https://">> \o Tail(base)
                     ELSE base
        IN  \A rec \in {IndexRec(j), disk[j]} :
              rec.tracks # None =>
                \A n \in DOMAIN rec.tracks[1] :
                  rec.tracks[1][n] =
                    shown \o <<"/api/tracks/", j, "/", StemFileOf(n)>>

\* C33: every progress value the simulation loop computes and writes is an
\* integer from 20 to 85, for every elapsed time and every estimated
\* processing time (at least 30 seconds), and is 85 once the elapsed time
\* has reached the estimate.
C33_SimulatedProgressInRange ==
    /\ \A e \in 0..MaxElapsedSeconds : \A d \in AnyDurations :
         /\ EstimatedTenths(d) >= 300
         /\ SimProgress(e, d) \in 20..85
         /\ e * 10 >= EstimatedTenths(d) => SimProgress(e, d) = 85
    /\ [][\A j \in JobIds :
            /\ (sim[j].pc = "poll" /\ sim'[j].pc = "update") =>
                 /\ sim'[j].current_progress \in 20..85
                 /\ ElapsedSeconds(j) * 10
                       >= EstimatedTenths(runner[j].duration)
                      => sim'[j].current_progress = 85
            /\ (sim[j].pc = "update" /\ sim'[j].pc = "poll" /\ InIndex(j)) =>
                 /\ IndexRec(j)'.progress = sim[j].current_progress
                 /\ IndexRec(j)'.progress \in 20..85]_vars

\* The loop has written a value strictly between the two ends.
C33_Witness ==
    \E j \in JobIds :
      /\ sim[j].pc = "poll"
      /\ child[j] = "running"
      /\ IndexRec(j).progress \in 21..84
      /\ IndexRec(j).message = Some(SimMessage(IndexRec(j).progress))

SimRunning(j) == sim[j].pc \in {"poll", "update"}
ChildEnded(j) == child[j] \in {"exit0", "exit1", "killed"}

\* C34: when every thread that can step eventually does, the progress thread
\* of a job ends once the child has exited or has been killed at the
\* timeout; the test of the loop that follows the child's end is the last
\* (at most the update under way is still written).
C34_ProgressThreadEnds ==
    /\ \A j \in JobIds : (ChildEnded(j) /\ SimRunning(j)) ~> ~SimRunning(j)
    /\ [][\A j \in JobIds :
            (ChildEnded(j) /\ sim[j].pc = "poll" /\ sim'[j] # sim[j]) =>
              sim'[j].pc = "end"]_vars

\* The thread of a job whose child was killed at the timeout has ended.
C34_Witness ==
    \E j \in JobIds :
      /\ child[j] = "killed"
      /\ runner[j].err = ERR_TIMEOUT
      /\ sim[j].pc = "end"

\* The steps that are a call of update_progress: the runner's, by its
\* position before and after, and the progress thread's.
UpdateSteps ==
    {<<"init", "mark">>, <<"analyze", "duration">>, <<"duration", "starting">>,
     <<"starting", "popen">>, <<"organize", "resolve">>,
     <<"bpm_start", "bpm">>, <<"bpm", "finalize">>}
CallsUpdateProgress(j) ==
    \/ <<runner[j].pc, runner'[j].pc>> \in UpdateSteps
    \/ sim[j].pc = "update" /\ sim'[j].pc = "poll"

C36_CompletedIsWhole ==
    \A j \in JobIds : \A rec \in {IndexRec(j), disk[j]} :
      rec.status = "completed" =>
        /\ rec.progress = 100
        /\ rec.duration # None
        /\ rec.completed_at # None

\* C37: for every track of a completed record (index and store), a request
\* of the job id and the file name of its URL is answered with the file
\* (200), whatever directory the resolution took the tracks from, while the
\* output of the job has not been removed.
C37_ListedTrackIsServed ==
    \A j \in JobIds : \A rec \in {IndexRec(j), disk[j]} :
      (rec.status = "completed" /\ rec.tracks # None
         /\ files[j].output # "absent") =>
        \A n \in DOMAIN rec.tracks[1] :
          LET url == rec.tracks[1][n] IN
            /\ url[Len(url) - 2] = j
            /\ serve_track(url[Len(url) - 2], url[Len(url)]) = 200

\* A job completed from the directory of another model, behind a model
\* directory that is empty; its two tracks are served.
C37_Witness ==
    \E j \in JobIds :
      /\ IndexRec(j).status = "completed"
      /\ runner[j].separated_dir = <<"demucs", "a">>
      /\ <<"htdemucs">> \in files[j].tree
      /\ DOMAIN IndexRec(j).tracks[1] = {"vocals", "drums"}
      /\ \A n \in {"vocals", "drums"} : serve_track(j, StemFileOf(n)) = 200
      /\ serve_track(j, "bass.mp3") = 404

\* C38: at startup, with no runner active, the second run of
\* load_all_jobs_from_disk (create_app's, after the module import's) leaves
\* the status and the error of every record, in the index and in the store,
\* as the first run left them.
C38_RecoveryIdempotent ==
    [][(loader.who = "startup" /\ loader.ran >= 1) =>
         \A j \in JobIds :
           /\ disk'[j].status = disk[j].status
           /\ disk'[j].error = disk[j].error
           /\ InIndex(j) =>
                /\ jobs'[j] # NoObj
                /\ heap'[jobs'[j]].status = IndexRec(j).status
                /\ heap'[jobs'[j]].error = IndexRec(j).error]_vars

\* The second run has ended over a record the first run made failed as
\* interrupted, at a time when its age is above the limit of a stuck job.
C38_Witness ==
    /\ loader.who = "startup" /\ loader.ran = 1 /\ loader.pc = "done"
    /\ \E j \in JobIds :
         /\ disk[j].status = "failed"
         /\ disk[j].error = Some(ERR_INTERRUPTED)
         /\ now - disk[j].created_at > STUCK_MINUTES
         /\ InIndex(j) /\ IndexRec(j) = disk[j]


====
